---- MODULE Spec2Model ----
(***************************************************************************)
(* A model of the Screeps teaching wrapper.                                 *)
(*                                                                         *)
(* The population manager (src/src/lib/populationManager.ts): body         *)
(* selection, spawn requests, role counting and the spawn-queue report,    *)
(* run against a host whose spawnCreep result, spawn state, room energy    *)
(* and creep table are chosen nondeterministically.                        *)
(*                                                                         *)
(* The creep wrapper (src/src/lib/simpleCreep.ts and its mixins), the tick *)
(* callbacks, the role dispatcher and the tower helper, run against a room *)
(* of objects on a line and a host whose command results are chosen        *)
(* nondeterministically.                                                   *)
(*                                                                         *)
(* The build watcher (src/build/watch.js): file-change events, the         *)
(* debounce timer and the flatten child process.                           *)
(***************************************************************************)
EXTENDS Integers, Sequences, FiniteSets, TLC

----------------------------------------------------------------------------
(* Bounds of the model.                                                    *)

\* Game.spawns holds at most this many spawns.
MaxSpawns == 2
\* Game.creeps holds at most this many creeps.
MaxCreeps == 2
\* Memory.__pmCounter is not pushed beyond this value.
MaxCounter == 2
\* The file-change events fs.watch delivers with a file name, and without one.
MaxChanges == 5
MaxIgnored == 2
\* Game.time runs from 0 to this value.
MaxTime == 1
\* The target count of the example loop (4 in the example).
LoopTarget == 1
\* Largest target count handed to maintainCreepsAtRole.
MaxTarget == 2
\* The targets object of maintainPopulation has at most this many keys.
MaxTargetKeys == 2
\* Body selection is explored for energies up to 10 * MaxEnergyTens + 9.
MaxEnergyTens == 400
\* Registrations of tick callbacks, distinct callbacks, and runs of runTickHandlers.
MaxHandlers == 3
MaxCallbacks == 2
MaxRuns == 2
\* Room positions lie on a line, 0..MaxPos; a room holds at most MaxObjs objects.
MaxPos == 4
MaxObjs == 2

----------------------------------------------------------------------------
(* Host constants, as the test harness installs them.                      *)

OK == 0
ERR_NOT_ENOUGH_ENERGY == -6
ERR_BUSY == -4
ERR_NAME_EXISTS == -3
\* A host code outside the four that buildCreep names.
ERR_NOT_FOUND == -5
ERR_NO_PATH == -7
ERR_TIRED == -11

WORK == "work"
CARRY == "carry"
MOVE == "move"
ATTACK == "attack"
TOUGH == "tough"

BODYPART_COST(p) ==
  CASE p = WORK -> 100
    [] p = CARRY -> 50
    [] p = MOVE -> 50
    [] p = ATTACK -> 80
    [] p = TOUGH -> 10
    [] OTHER -> 0

\* The part-count ceiling written into every loop of chooseBody.
MaxBodyParts == 50

----------------------------------------------------------------------------
(* Strings are sequences of one-character strings, so that building a      *)
(* creep name and splitting it again are computed, not assumed.            *)

Harvester == <<"h", "a", "r", "v", "e", "s", "t", "e", "r">>
Worker == <<"w", "o", "r", "k", "e", "r">>
Soldier == <<"s", "o", "l", "d", "i", "e", "r">>
Roles == {Harvester, Worker, Soldier}

\* A role string outside the Role enum, as a creep's memory may hold.
Builder == <<"b", "u", "i", "l", "d", "e", "r">>

\* The name the test suite gives to a foreign spawn job: 'busy'.
BusyName == <<"b", "u", "s", "y">>

Dash == "-"

DigitChar(d) == <<"0", "1", "2", "3", "4", "5", "6", "7", "8", "9">>[d + 1]

\* String(n) of a non-negative integer, as the template literal renders it.
RECURSIVE NumberToString(_)
NumberToString(n) ==
  IF n < 10 THEN <<DigitChar(n)>>
  ELSE NumberToString(n \div 10) \o <<DigitChar(n % 10)>>

\* name.split("-")[0]: the characters before the first dash.
RECURSIVE SplitFirst(_)
SplitFirst(s) ==
  IF s = <<>> THEN <<>>
  ELSE IF Head(s) = Dash THEN <<>>
  ELSE <<Head(s)>> \o SplitFirst(Tail(s))

----------------------------------------------------------------------------
(* chooseBody                                                              *)

\* costOf: parts.reduce((s, p) => s + (BODYPART_COST[p] || 0), 0)
RECURSIVE CostFrom(_, _)
CostFrom(parts, i) ==
  IF i > Len(parts) THEN 0 ELSE BODYPART_COST(parts[i]) + CostFrom(parts, i + 1)

costOf(parts) == CostFrom(parts, 1)

BaseBody(role) ==
  IF role = Harvester THEN <<WORK, CARRY, MOVE>>
  ELSE IF role = Worker THEN <<WORK, CARRY, MOVE>>
  ELSE IF role = Soldier THEN <<TOUGH, ATTACK, MOVE>>
  ELSE <<>>

\* The unit each role's first while loop appends.
ScaleUnit(role) ==
  IF role = Harvester THEN <<WORK, MOVE>>
  ELSE IF role = Worker THEN <<WORK, CARRY, MOVE>>
  ELSE <<ATTACK, MOVE>>

\* The unit of the Harvester's second while loop.
ExtraUnit == <<CARRY>>

CanAppend_NoCeiling(body, unit, availableEnergy) ==
  costOf(unit) + costOf(body) <= availableEnergy

CanAppend_UnitOnly(body, unit, availableEnergy) ==
  /\ Len(body) + Len(unit) <= MaxBodyParts
  /\ costOf(unit) <= availableEnergy

\* The condition of the while loops:
\* body.length + k <= 50 && costOf(unit) + costOf(body) <= availableEnergy
CanAppend(body, unit, availableEnergy) ==
  /\ Len(body) + Len(unit) <= MaxBodyParts
  /\ costOf(unit) + costOf(body) <= availableEnergy

RECURSIVE AppendWhile(_, _, _)
AppendWhile(body, unit, availableEnergy) ==
  IF CanAppend(body, unit, availableEnergy)
  THEN AppendWhile(body \o unit, unit, availableEnergy)
  ELSE body

chooseBody(role, availableEnergy) ==
  IF role \notin Roles THEN <<>>
  ELSE IF costOf(BaseBody(role)) > availableEnergy THEN <<>>
  ELSE LET scaled == AppendWhile(BaseBody(role), ScaleUnit(role), availableEnergy)
       IN IF role = Harvester
          THEN AppendWhile(scaled, ExtraUnit, availableEnergy)
          ELSE scaled

----------------------------------------------------------------------------
(* The state.                                                              *)

VARIABLES
  spawns,           \* Game.spawns in key order: [name, spawning, hasRoom]
  energyAvailable,  \* room.energyAvailable of the primary spawn's room: <<>> (undefined) or <<n>>
  creeps,           \* Game.creeps in key order: [hasMemory, role]
  time,             \* Game.time
  pmCounter,        \* Memory.__pmCounter: <<>> (absent) or <<n>>
  memEntries,       \* Memory[<creep name>] entries: a function from names to [role]
  spawnLog,         \* the name and role of every spawn.spawnCreep call made so far
  last,             \* the call in progress: its arguments, what it did and what it returns
  cbPc,             \* chooseBody run step by step: where it stands
  cbRole,           \* ... its role argument
  cbEnergy,         \* ... its availableEnergy argument
  cbBody,           \* ... its local `body`
  objs,             \* the objects of the creep's room, in room.find order
  tickHandlers,     \* the module's `tickHandlers` array: callbacks by identity
  tickCalls,        \* per registration: how often runTickHandlers has invoked it
  tickRegAt,        \* per registration: how many runs had started when it was made
  tickRun,          \* runTickHandlers in progress: runs started, forEach index and length
  watch             \* build/watch.js: `debounce`, `running`, the flatten processes alive

worldVars == <<spawns, energyAvailable, creeps, time, memEntries>>
pmVars == <<pmCounter, spawnLog, last>>
cbVars == <<cbPc, cbRole, cbEnergy, cbBody>>
tickVars == <<tickHandlers, tickCalls, tickRegAt, tickRun>>
wrapperVars == <<objs, tickHandlers, tickCalls, tickRegAt, tickRun, watch>>
vars == <<spawns, energyAvailable, creeps, time, memEntries, pmCounter, spawnLog, last,
          cbPc, cbRole, cbEnergy, cbBody, objs, tickHandlers, tickCalls, tickRegAt, tickRun,
          watch>>

\* The codes the host's spawnCreep answers with in the model.
SpawnCreepResults == {OK, ERR_NOT_ENOUGH_ENERGY, ERR_BUSY, ERR_NAME_EXISTS, ERR_NOT_FOUND}

\* Room energies of the main specifications: undefined, and values around the base costs.
EnergyLevels == {<<>>, <<139>>, <<140>>, <<199>>, <<200>>, <<350>>}

\* Energies of the body-selection specifications.
BodyEnergies == {10 * k + d : k \in 0..MaxEnergyTens, d \in {0, 9}}
\* ... and those of them buildCreep is run with: the values at and just below the
\* sums of part costs.
BuildEnergies == {e \in BodyEnergies : e % 50 \in {0, 39, 40, 49}}

\* What a creep's memory can hold.
CreepKinds ==
  {[hasMemory |-> TRUE, role |-> r] : r \in Roles \cup {Builder, <<>>}}
    \cup {[hasMemory |-> FALSE, role |-> <<>>]}

NoOp ==
  [op |-> "none", role |-> <<>>, target |-> 0, targets |-> <<>>, status |-> "",
   result |-> FALSE, count |-> 0, handled |-> <<>>, jobs |-> <<>>, summary |-> <<>>,
   steps |-> <<>>, calls |-> <<>>, counterBefore |-> <<>>,
   self |-> <<>>, arg |-> <<>>, tie |-> "", handlers |-> {}, cmds |-> <<>>, res |-> 0]

\* `x ?? 0` and the truthiness of a number that may be absent.
Available == IF energyAvailable = <<>> THEN 0 ELSE energyAvailable[1]
CounterValue(c) == IF c = <<>> THEN 0 ELSE c[1]

----------------------------------------------------------------------------
(* getPrimarySpawn, canBuildCreep, buildCreep                              *)

\* names[0]: the first key of Game.spawns.
PrimaryIndex == 1

HasPrimarySpawn == Len(spawns) > 0
PrimarySpawn == spawns[PrimaryIndex]

canBuildCreep_IgnoreSpawning(role) ==
  IF ~HasPrimarySpawn THEN FALSE
  ELSE IF ~PrimarySpawn.hasRoom THEN FALSE
  ELSE Len(chooseBody(role, Available)) > 0

canBuildCreep(role) ==
  IF ~HasPrimarySpawn THEN FALSE
  ELSE IF PrimarySpawn.spawning # <<>> THEN FALSE
  ELSE IF ~PrimarySpawn.hasRoom THEN FALSE
  ELSE Len(chooseBody(role, Available)) > 0

CreepName_CounterFirst(role, counter, t) ==
  NumberToString(counter) \o <<Dash>> \o role \o <<Dash>> \o NumberToString(t)

\* `${role}-${Memory.__pmCounter}-${Game.time}`
CreepName(role, counter, t) ==
  role \o <<Dash>> \o NumberToString(counter) \o <<Dash>> \o NumberToString(t)

NextCounter_Reset(c) == 1

\* if (!Memory.__pmCounter) Memory.__pmCounter = 0; Memory.__pmCounter += 1
NextCounter(c) == (IF c = <<>> \/ c[1] = 0 THEN 0 ELSE c[1]) + 1

SpawnResultLabel_BusyIsError(res) ==
  IF res = OK THEN "SPAWNING"
  ELSE IF res = ERR_NOT_ENOUGH_ENERGY THEN "NOT_ENOUGH_ENERGY"
  ELSE "ERROR"

\* The mapping at the end of buildCreep.
SpawnResultLabel(res) ==
  IF res = OK THEN "SPAWNING"
  ELSE IF res = ERR_NOT_ENOUGH_ENERGY THEN "NOT_ENOUGH_ENERGY"
  ELSE IF res = ERR_BUSY \/ res = ERR_NAME_EXISTS THEN "SPAWN_BUSY"
  ELSE "ERROR"

\* A variant that does not look at spawn.spawning.
buildCreep_IgnoreSpawning(role, c, res) ==
  IF ~HasPrimarySpawn THEN [ret |-> "ERROR", counter |-> c, calls |-> <<>>]
  ELSE IF ~PrimarySpawn.hasRoom THEN [ret |-> "ERROR", counter |-> c, calls |-> <<>>]
  ELSE LET body == chooseBody(role, Available)
       IN IF Len(body) = 0
          THEN [ret |-> "NOT_ENOUGH_ENERGY", counter |-> c, calls |-> <<>>]
          ELSE LET n == NextCounter(c)
                   call == [spawn |-> PrimaryIndex, body |-> body,
                            name |-> CreepName(role, n, time),
                            memRole |-> role, res |-> res]
               IN [ret |-> SpawnResultLabel(res), counter |-> <<n>>, calls |-> <<call>>]

\* A variant that takes a number only for a creep the spawn accepted.
buildCreep_CountOnSuccess(role, c, res) ==
  IF ~HasPrimarySpawn THEN [ret |-> "ERROR", counter |-> c, calls |-> <<>>]
  ELSE IF PrimarySpawn.spawning # <<>> THEN [ret |-> "SPAWN_BUSY", counter |-> c, calls |-> <<>>]
  ELSE IF ~PrimarySpawn.hasRoom THEN [ret |-> "ERROR", counter |-> c, calls |-> <<>>]
  ELSE LET body == chooseBody(role, Available)
       IN IF Len(body) = 0
          THEN [ret |-> "NOT_ENOUGH_ENERGY", counter |-> c, calls |-> <<>>]
          ELSE LET n == NextCounter(c)
                   call == [spawn |-> PrimaryIndex, body |-> body,
                            name |-> CreepName(role, n, time),
                            memRole |-> role, res |-> res]
               IN [ret |-> SpawnResultLabel(res), counter |-> IF res = OK THEN <<n>> ELSE c,
                   calls |-> <<call>>]

\* buildCreep(role) run with Memory.__pmCounter = c against a host that answers
\* spawnCreep with res: what it returns, the counter it leaves, the calls it makes.
buildCreep(role, c, res) ==
  IF ~HasPrimarySpawn THEN [ret |-> "ERROR", counter |-> c, calls |-> <<>>]
  ELSE IF PrimarySpawn.spawning # <<>> THEN [ret |-> "SPAWN_BUSY", counter |-> c, calls |-> <<>>]
  ELSE IF ~PrimarySpawn.hasRoom THEN [ret |-> "ERROR", counter |-> c, calls |-> <<>>]
  ELSE LET body == chooseBody(role, Available)
       IN IF Len(body) = 0
          THEN [ret |-> "NOT_ENOUGH_ENERGY", counter |-> c, calls |-> <<>>]
          ELSE LET n == NextCounter(c)
                   call == [spawn |-> PrimaryIndex, body |-> body,
                            name |-> CreepName(role, n, time),
                            memRole |-> role, res |-> res]
               IN [ret |-> SpawnResultLabel(res), counter |-> <<n>>, calls |-> <<call>>]

----------------------------------------------------------------------------
(* getCreepCount, forEachCreepOfRole                                       *)

\* const memRole = c.memory && c.memory.role
MemRole(c) == IF c.hasMemory THEN c.role ELSE <<>>

RoleMatches_AnyRole(c, role) == MemRole(c) # <<>>

\* if (memRole === role)
RoleMatches(c, role) == MemRole(c) = role

\* The for-in loop of getCreepCount over the creeps from index i on.
RECURSIVE CountFrom(_, _)
CountFrom(i, role) ==
  IF i > Len(creeps) THEN 0
  ELSE (IF RoleMatches(creeps[i], role) THEN 1 ELSE 0) + CountFrom(i + 1, role)

getCreepCount(role) == CountFrom(1, role)

\* The for-in loop of forEachCreepOfRole: the creeps (by index) the handler is
\* called with, in call order.
RECURSIVE HandledFrom(_, _)
HandledFrom(i, role) ==
  IF i > Len(creeps) THEN <<>>
  ELSE (IF RoleMatches(creeps[i], role) THEN <<i>> ELSE <<>>) \o HandledFrom(i + 1, role)

forEachCreepOfRole(role) == HandledFrom(1, role)

----------------------------------------------------------------------------
(* maintainCreepsAtRole, maintainPopulation                                *)

IsCapped_Strict(current, targetCount) == current > targetCount

\* if (current >= targetCount) return "CAPPED"
IsCapped(current, targetCount) == current >= targetCount

\* The mapping at the end of maintainCreepsAtRole.
MaintainLabel(res) ==
  IF res = "SPAWNING" THEN "SPAWNING"
  ELSE IF res = "NOT_ENOUGH_ENERGY" THEN "BLOCKED"
  ELSE IF res = "SPAWN_BUSY" THEN "BLOCKED"
  ELSE "OK"

\* A variant that does not compare the count with the target.
maintainCreepsAtRole_NoCap(role, targetCount, c, res) ==
  IF ~canBuildCreep(role)
  THEN [ret |-> "BLOCKED", counter |-> c, calls |-> <<>>]
  ELSE LET b == buildCreep(role, c, res)
       IN [ret |-> MaintainLabel(b.ret), counter |-> b.counter, calls |-> b.calls]

\* maintainCreepsAtRole(role, targetCount) run with Memory.__pmCounter = c against a
\* host that answers spawnCreep with res.
maintainCreepsAtRole(role, targetCount, c, res) ==
  IF IsCapped(getCreepCount(role), targetCount)
  THEN [ret |-> "CAPPED", counter |-> c, calls |-> <<>>]
  ELSE IF ~canBuildCreep(role)
  THEN [ret |-> "BLOCKED", counter |-> c, calls |-> <<>>]
  ELSE LET b == buildCreep(role, c, res)
       IN [ret |-> MaintainLabel(b.ret), counter |-> b.counter, calls |-> b.calls]

IsNumber_Truthy(value) == value # <<>> /\ value # <<0>>

\* typeof target === "number"; a target is <<n>> (a number) or <<>> (anything else)
IsNumber(value) == value # <<>>

\* The loop of maintainPopulation over the keys of targets from index i on, with
\* results[i] the host's answer should the i-th key reach spawnCreep.
RECURSIVE PopulationFrom(_, _, _, _)
PopulationFrom(i, targets, results, acc) ==
  IF i > Len(targets) THEN acc
  ELSE IF ~IsNumber(targets[i].value) THEN PopulationFrom(i + 1, targets, results, acc)
  ELSE LET m == maintainCreepsAtRole(targets[i].key, targets[i].value[1],
                                     acc.counter, results[i])
           step == [key |-> targets[i].key, target |-> targets[i].value[1],
                    counterBefore |-> acc.counter, res |-> results[i],
                    status |-> m.ret, made |-> Len(m.calls)]
       IN PopulationFrom(i + 1, targets, results,
            [summary |-> (targets[i].key :> m.ret) @@ acc.summary,
             counter |-> m.counter,
             calls |-> acc.calls \o m.calls,
             steps |-> Append(acc.steps, step)])

maintainPopulation(targets, c, results) ==
  PopulationFrom(1, targets, results,
                 [summary |-> <<>>, counter |-> c, calls |-> <<>>, steps |-> <<>>])

----------------------------------------------------------------------------
(* getQueuedSpawns                                                         *)

\* (memEntry && memEntry.role) || sp.spawning.name.split("-")[0]
InferredRole(name) ==
  IF name \in DOMAIN memEntries /\ memEntries[name].role # <<>>
  THEN memEntries[name].role
  ELSE SplitFirst(name)

\* The for-in loop of getQueuedSpawns over the spawns from index i on.
RECURSIVE JobsFrom(_)
JobsFrom(i) ==
  IF i > Len(spawns) THEN <<>>
  ELSE (IF spawns[i].spawning # <<>>
        THEN <<[role |-> InferredRole(spawns[i].spawning[1]),
                name |-> spawns[i].spawning[1],
                spawnName |-> spawns[i].name]>>
        ELSE <<>>) \o JobsFrom(i + 1)

getQueuedSpawns == JobsFrom(1)

----------------------------------------------------------------------------
(* The operations of PopulationManager as actions.                         *)

\* The manager is synchronous: a call starts when none is in progress, `last` holds
\* it until it has returned, and the world does not change in between.
Idle == last.op = "none"

Return ==
  /\ ~Idle
  /\ tickRun.pc = 0
  /\ last' = NoOp
  /\ UNCHANGED <<worldVars, pmCounter, spawnLog, cbVars, wrapperVars>>

LogOf(calls) == [i \in 1..Len(calls) |-> [name |-> calls[i].name, role |-> calls[i].memRole]]

CanBuildCreep(role) ==
  /\ Idle
  /\ last' = [NoOp EXCEPT !.op = "canBuildCreep", !.role = role,
                          !.result = canBuildCreep(role), !.counterBefore = pmCounter]
  /\ UNCHANGED <<worldVars, pmCounter, spawnLog, cbVars, wrapperVars>>

BuildCreep(role) ==
  /\ Idle
  /\ CounterValue(pmCounter) < MaxCounter
  /\ \E res \in SpawnCreepResults :
       \E b \in {buildCreep(role, pmCounter, res)} :
          /\ pmCounter' = b.counter
          /\ spawnLog' = spawnLog \o LogOf(b.calls)
          /\ last' = [NoOp EXCEPT !.op = "buildCreep", !.role = role, !.status = b.ret,
                                  !.calls = b.calls, !.counterBefore = pmCounter]
  /\ UNCHANGED <<worldVars, cbVars, wrapperVars>>

GetCreepCount(role) ==
  /\ Idle
  /\ last' = [NoOp EXCEPT !.op = "getCreepCount", !.role = role,
                          !.count = getCreepCount(role), !.counterBefore = pmCounter]
  /\ UNCHANGED <<worldVars, pmCounter, spawnLog, cbVars, wrapperVars>>

ForEachCreepOfRole(role) ==
  /\ Idle
  /\ last' = [NoOp EXCEPT !.op = "forEachCreepOfRole", !.role = role,
                          !.handled = forEachCreepOfRole(role),
                          !.counterBefore = pmCounter]
  /\ UNCHANGED <<worldVars, pmCounter, spawnLog, cbVars, wrapperVars>>

MaintainCreepsAtRole(role, targetCount) ==
  /\ Idle
  /\ CounterValue(pmCounter) < MaxCounter
  /\ \E res \in SpawnCreepResults :
       \E m \in {maintainCreepsAtRole(role, targetCount, pmCounter, res)} :
          /\ pmCounter' = m.counter
          /\ spawnLog' = spawnLog \o LogOf(m.calls)
          /\ last' = [NoOp EXCEPT !.op = "maintainCreepsAtRole", !.role = role,
                                  !.target = targetCount, !.status = m.ret,
                                  !.calls = m.calls, !.counterBefore = pmCounter]
  /\ UNCHANGED <<worldVars, cbVars, wrapperVars>>

\* The values a key of the targets object holds: a number, or something else.
TargetValues == {<<>>, <<0>>, <<MaxTarget>>}
TargetEntries == {[key |-> k, value |-> v] : k \in Roles, v \in TargetValues}
\* Objects have distinct keys; Object.keys lists them in insertion order.
TargetObjects ==
  UNION {{t \in [1..n -> TargetEntries] :
            \A i, j \in 1..n : i < j => t[i].key # t[j].key} : n \in 0..MaxTargetKeys}

MaintainPopulation(targets) ==
  /\ Idle
  /\ CounterValue(pmCounter) + Len(targets) <= MaxCounter
  /\ \E results \in [1..Len(targets) -> SpawnCreepResults] :
       \E p \in {maintainPopulation(targets, pmCounter, results)} :
          /\ pmCounter' = p.counter
          /\ spawnLog' = spawnLog \o LogOf(p.calls)
          /\ last' = [NoOp EXCEPT !.op = "maintainPopulation", !.targets = targets,
                                  !.summary = p.summary, !.steps = p.steps,
                                  !.calls = p.calls, !.counterBefore = pmCounter]
  /\ UNCHANGED <<worldVars, cbVars, wrapperVars>>

GetQueuedSpawns ==
  /\ Idle
  /\ last' = [NoOp EXCEPT !.op = "getQueuedSpawns", !.jobs = getQueuedSpawns,
                          !.counterBefore = pmCounter]
  /\ UNCHANGED <<worldVars, pmCounter, spawnLog, cbVars, wrapperVars>>

----------------------------------------------------------------------------
(* The host and the player's other code: what changes the world between    *)
(* calls.  None of it is code of the wrapper.                              *)

Tick ==
  /\ Idle
  /\ time < MaxTime
  /\ time' = time + 1
  /\ UNCHANGED <<last, spawns, energyAvailable, creeps, memEntries, pmCounter, spawnLog, cbVars, wrapperVars>>

SetEnergy(e) ==
  /\ Idle
  /\ e # energyAvailable
  /\ energyAvailable' = e
  /\ UNCHANGED <<last, spawns, creeps, time, memEntries, pmCounter, spawnLog, cbVars, wrapperVars>>

AddSpawn(hasRoom) ==
  /\ Idle
  /\ Len(spawns) < MaxSpawns
  /\ spawns' = Append(spawns, [name |-> Len(spawns) + 1, spawning |-> <<>>,
                               hasRoom |-> hasRoom])
  /\ UNCHANGED <<last, energyAvailable, creeps, time, memEntries, pmCounter, spawnLog, cbVars, wrapperVars>>

\* A spawn starts a job: one the manager asked for, or a foreign one.
SpawnStarts(i, name) ==
  /\ Idle
  /\ i \in 1..Len(spawns)
  /\ spawns[i].spawning = <<>>
  /\ spawns' = [spawns EXCEPT ![i].spawning = <<name>>]
  /\ UNCHANGED <<last, energyAvailable, creeps, time, memEntries, pmCounter, spawnLog, cbVars, wrapperVars>>

SpawnFinishes(i) ==
  /\ Idle
  /\ i \in 1..Len(spawns)
  /\ spawns[i].spawning # <<>>
  /\ spawns' = [spawns EXCEPT ![i].spawning = <<>>]
  /\ UNCHANGED <<last, energyAvailable, creeps, time, memEntries, pmCounter, spawnLog, cbVars, wrapperVars>>

\* The player's code stores something under Memory[<name of a spawning creep>].
WriteMemory(name, role) ==
  /\ Idle
  /\ memEntries = <<>>
  /\ memEntries' = (name :> [role |-> role])
  /\ UNCHANGED <<last, spawns, energyAvailable, creeps, time, pmCounter, spawnLog, cbVars, wrapperVars>>

ClearMemory ==
  /\ Idle
  /\ memEntries # <<>>
  /\ memEntries' = <<>>
  /\ UNCHANGED <<last, spawns, energyAvailable, creeps, time, pmCounter, spawnLog, cbVars, wrapperVars>>

AddCreep(kind) ==
  /\ Idle
  /\ Len(creeps) < MaxCreeps
  /\ creeps' = Append(creeps, kind)
  /\ UNCHANGED <<last, spawns, energyAvailable, time, memEntries, pmCounter, spawnLog, cbVars, wrapperVars>>

RemoveCreep(i) ==
  /\ Idle
  /\ i \in 1..Len(creeps)
  /\ creeps' = [k \in 1..(Len(creeps) - 1) |-> IF k < i THEN creeps[k] ELSE creeps[k + 1]]
  /\ UNCHANGED <<last, spawns, energyAvailable, time, memEntries, pmCounter, spawnLog, cbVars, wrapperVars>>

LoggedNames == {spawnLog[i].name : i \in 1..Len(spawnLog)}
SpawningNames == {spawns[i].spawning[1] : i \in {k \in 1..Len(spawns) : spawns[k].spawning # <<>>}}

----------------------------------------------------------------------------
(* chooseBody run one loop iteration at a time.                            *)

ChooseStart ==
  /\ cbPc = "start"
  /\ IF cbRole \notin Roles \/ costOf(BaseBody(cbRole)) > cbEnergy
     THEN cbBody' = <<>> /\ cbPc' = "done"
     ELSE cbBody' = BaseBody(cbRole) /\ cbPc' = "scale"
  /\ UNCHANGED <<worldVars, pmVars, cbRole, cbEnergy, wrapperVars>>

ChooseScale ==
  /\ cbPc = "scale"
  /\ IF CanAppend(cbBody, ScaleUnit(cbRole), cbEnergy)
     THEN cbBody' = cbBody \o ScaleUnit(cbRole) /\ cbPc' = "scale"
     ELSE cbBody' = cbBody /\ cbPc' = (IF cbRole = Harvester THEN "extra" ELSE "done")
  /\ UNCHANGED <<worldVars, pmVars, cbRole, cbEnergy, wrapperVars>>

ChooseExtra ==
  /\ cbPc = "extra"
  /\ IF CanAppend(cbBody, ExtraUnit, cbEnergy)
     THEN cbBody' = cbBody \o ExtraUnit /\ cbPc' = "extra"
     ELSE cbBody' = cbBody /\ cbPc' = "done"
  /\ UNCHANGED <<worldVars, pmVars, cbRole, cbEnergy, wrapperVars>>

----------------------------------------------------------------------------
(* Specifications.                                                         *)

InitWorld ==
  /\ spawns = <<>>
  /\ energyAvailable = <<>>
  /\ creeps = <<>>
  /\ time = 0
  /\ memEntries = <<>>

InitManager ==
  /\ pmCounter = <<>>
  /\ spawnLog = <<>>
  /\ last = NoOp

InitChooseIdle ==
  /\ cbPc = "idle"
  /\ cbRole = <<>>
  /\ cbEnergy = 0
  /\ cbBody = <<>>

InitTicks ==
  /\ tickHandlers = <<>>
  /\ tickCalls = <<>>
  /\ tickRegAt = <<>>
  /\ tickRun = [started |-> 0, pc |-> 0, len |-> 0]

\* let debounce = null; let running = false; nothing has changed or been flattened.
InitWatch ==
  watch = [debounce |-> "null", running |-> FALSE, procs |-> 0, changes |-> 0, built |-> 0,
           ignored |-> 0]

InitWrapperIdle ==
  /\ objs = <<>>
  /\ InitTicks
  /\ InitWatch

\* Spawning: the spawns, the room's energy and the clock change; creeps are built.
Init == InitWorld /\ InitManager /\ InitChooseIdle /\ InitWrapperIdle

Next ==
  \/ Return
  \/ \E role \in Roles : CanBuildCreep(role)
  \/ \E role \in Roles : BuildCreep(role)
  \/ Tick
  \/ \E e \in EnergyLevels : SetEnergy(e)
  \/ \E hasRoom \in BOOLEAN : AddSpawn(hasRoom)
  \/ \E i \in 1..MaxSpawns : SpawnStarts(i, BusyName)
  \/ \E i \in 1..MaxSpawns : SpawnFinishes(i)

Spec == Init /\ [][Next]_vars

\* The counter: every operation of the manager that may or may not touch
\* Memory.__pmCounter, in a world whose spawns, energy and creeps change.
NextCounterOps ==
  \/ Return
  \/ \E role \in Roles : CanBuildCreep(role)
  \/ \E role \in Roles : BuildCreep(role)
  \/ \E role \in Roles : GetCreepCount(role)
  \/ \E role \in Roles : ForEachCreepOfRole(role)
  \/ GetQueuedSpawns
  \/ \E e \in EnergyLevels : SetEnergy(e)
  \/ \E hasRoom \in BOOLEAN : AddSpawn(hasRoom)
  \/ \E i \in 1..MaxSpawns : SpawnStarts(i, BusyName)
  \/ \E i \in 1..MaxSpawns : SpawnFinishes(i)
  \/ \E role \in Roles : AddCreep([hasMemory |-> TRUE, role |-> role])

SpecCounterOps == Init /\ [][NextCounterOps]_vars

\* Spawning: every operation of the manager that may call spawn.spawnCreep, in a
\* world whose spawns, energy and creeps change.
NextSpawning ==
  \/ Return
  \/ \E role \in Roles : BuildCreep(role)
  \/ \E role \in Roles : \E targetCount \in 0..MaxTarget : MaintainCreepsAtRole(role, targetCount)
  \/ \E targets \in TargetObjects : MaintainPopulation(targets)
  \/ \E e \in EnergyLevels : SetEnergy(e)
  \/ \E hasRoom \in BOOLEAN : AddSpawn(hasRoom)
  \/ \E i \in 1..MaxSpawns : SpawnStarts(i, BusyName)
  \/ \E i \in 1..MaxSpawns : SpawnFinishes(i)
  \/ \E role \in Roles : AddCreep([hasMemory |-> TRUE, role |-> role])

SpecSpawning == Init /\ [][NextSpawning]_vars

\* The example loop: every tick the script calls maintainCreepsAtRole(Role.Harvester,
\* n) once, and then the host moves on to the next tick: a creep the spawn accepted
\* joins Game.creeps, creeps die, the spawn and the room's energy change.
LoopRole == Harvester
LoopSpawns ==
  {<<>>} \cup {<<[name |-> 1, spawning |-> s, hasRoom |-> TRUE]>> : s \in {<<>>, <<BusyName>>}}
LoopEnergies == {<<199>>, <<200>>}
LoopCreeps ==
  UNION {[1..n -> {[hasMemory |-> TRUE, role |-> r] : r \in {Harvester, Worker}}] :
           n \in 0..MaxCreeps}

\* The creeps of Game.creeps that are still there, in key order.
RECURSIVE KeepFrom(_, _)
KeepFrom(i, keep) ==
  IF i > Len(creeps) THEN <<>>
  ELSE (IF i \in keep THEN <<creeps[i]>> ELSE <<>>) \o KeepFrom(i + 1, keep)

InitLoop ==
  /\ spawns \in LoopSpawns
  /\ energyAvailable \in LoopEnergies
  /\ creeps \in LoopCreeps
  /\ time = 0
  /\ memEntries = <<>>
  /\ InitManager
  /\ InitWrapperIdle
  /\ InitChooseIdle

LoopScript == MaintainCreepsAtRole(LoopRole, LoopTarget)

LoopHost ==
  /\ last.op = "maintainCreepsAtRole"
  /\ \E keep \in SUBSET (1..Len(creeps)) :
       creeps' = KeepFrom(1, keep) \o
                   (IF last.calls # <<>> /\ last.calls[1].res = OK
                    THEN <<[hasMemory |-> TRUE, role |-> last.calls[1].memRole]>>
                    ELSE <<>>)
  /\ spawns' \in LoopSpawns
  /\ energyAvailable' \in LoopEnergies
  /\ time' = IF time < MaxTime THEN time + 1 ELSE time
  /\ last' = NoOp
  /\ UNCHANGED <<memEntries, pmCounter, spawnLog, cbVars, wrapperVars>>

NextLoop == LoopScript \/ LoopHost

SpecLoop == InitLoop /\ [][NextLoop]_vars

\* The spawn queue: a room with energy for every role, spawns that take up the jobs
\* the manager asked for (or foreign ones), and a player who writes to Memory.
InitQueue ==
  /\ spawns = <<>>
  /\ energyAvailable = <<350>>
  /\ creeps = <<>>
  /\ time = 0
  /\ memEntries = <<>>
  /\ InitManager
  /\ InitWrapperIdle
  /\ InitChooseIdle

NextQueue ==
  \/ Return
  \/ \E role \in Roles : BuildCreep(role)
  \/ GetQueuedSpawns
  \/ Tick
  \/ AddSpawn(TRUE)
  \/ \E i \in 1..MaxSpawns : \E name \in {BusyName} \cup LoggedNames : SpawnStarts(i, name)
  \/ \E i \in 1..MaxSpawns : SpawnFinishes(i)
  \/ \E name \in SpawningNames : \E role \in Roles \cup {<<>>} : WriteMemory(name, role)
  \/ ClearMemory

SpecQueue == InitQueue /\ [][NextQueue]_vars

\* The population: creeps come and go around one room whose energy and spawn change.
InitPop ==
  /\ spawns \in {<<>>, <<[name |-> 1, spawning |-> <<>>, hasRoom |-> TRUE]>>}
  /\ energyAvailable \in {<<139>>, <<200>>}
  /\ creeps = <<>>
  /\ time = 0
  /\ memEntries = <<>>
  /\ InitManager
  /\ InitWrapperIdle
  /\ InitChooseIdle

NextPop ==
  \/ Return
  \/ \E role \in Roles : GetCreepCount(role)
  \/ \E role \in Roles : ForEachCreepOfRole(role)
  \/ \E role \in Roles : \E targetCount \in 0..MaxTarget : MaintainCreepsAtRole(role, targetCount)
  \/ \E kind \in CreepKinds : AddCreep(kind)
  \/ \E i \in 1..MaxCreeps : RemoveCreep(i)
  \/ \E i \in 1..MaxSpawns : SpawnStarts(i, BusyName)
  \/ \E i \in 1..MaxSpawns : SpawnFinishes(i)

SpecPop == InitPop /\ [][NextPop]_vars

\* Several roles maintained in one pass.
NextTargets ==
  \/ Return
  \/ \E targets \in TargetObjects : MaintainPopulation(targets)
  \/ \E role \in {Harvester, Worker} : AddCreep([hasMemory |-> TRUE, role |-> role])
  \/ \E i \in 1..MaxCreeps : RemoveCreep(i)
  \/ \E i \in 1..MaxSpawns : SpawnStarts(i, BusyName)
  \/ \E i \in 1..MaxSpawns : SpawnFinishes(i)

SpecTargets == InitPop /\ [][NextTargets]_vars

\* Body selection through buildCreep, over the whole range of energies.
InitBody ==
  /\ spawns = <<[name |-> 1, spawning |-> <<>>, hasRoom |-> TRUE]>>
  /\ energyAvailable \in {<<e>> : e \in BuildEnergies}
  /\ creeps = <<>>
  /\ time = 0
  /\ memEntries = <<>>
  /\ InitManager
  /\ InitWrapperIdle
  /\ InitChooseIdle

NextBody ==
  \/ Return
  \/ \E role \in Roles : BuildCreep(role)

SpecBody == InitBody /\ [][NextBody]_vars

\* chooseBody alone, one loop iteration per step; the engine runs it to completion.
InitChoose ==
  /\ InitWorld
  /\ InitManager
  /\ InitWrapperIdle
  /\ cbPc = "start"
  /\ cbRole \in Roles \cup {Builder}
  /\ cbEnergy \in BodyEnergies
  /\ cbBody = <<>>

NextChoose == ChooseStart \/ ChooseScale \/ ChooseExtra

SpecChoose == InitChoose /\ [][NextChoose]_vars /\ WF_vars(NextChoose)

----------------------------------------------------------------------------
(* onTick, runTickHandlers                                                 *)

\* Callbacks by identity: the same function can be registered more than once.
Callbacks == 1..MaxCallbacks

TickIdle == tickRun.pc = 0

\* A callback is running or has just returned inside runTickHandlers: the place from
\* which a callback can itself call onTick.
InCallback == ~TickIdle /\ tickRun.pc > 1

\* tickHandlers.unshift(callback)
Push_Front(handlers, cb) == <<cb>> \o handlers

\* tickHandlers.push(callback)
Push(handlers, cb) == Append(handlers, cb)

\* Array.prototype.forEach reads the length once, before the first call ...
ForEachLength_Live(handlers, len) == Len(handlers)

ForEachLength(handlers, len) == len

\* ... and visits the indexes one by one.
ForEachNext(k) == k + 1

OnTick(cb) ==
  /\ (Idle /\ TickIdle) \/ InCallback
  /\ Len(tickHandlers) < MaxHandlers
  /\ tickHandlers' = Push(tickHandlers, cb)
  /\ tickCalls' = Append(tickCalls, 0)
  /\ tickRegAt' = Append(tickRegAt, tickRun.started)
  /\ UNCHANGED <<tickRun, last, objs, worldVars, pmCounter, spawnLog, cbVars, watch>>

RunTickHandlers ==
  /\ Idle /\ TickIdle
  /\ tickRun.started < MaxRuns
  /\ tickRun' = [started |-> tickRun.started + 1, pc |-> 1, len |-> Len(tickHandlers)]
  /\ last' = [NoOp EXCEPT !.op = "runTickHandlers", !.count = Len(tickHandlers)]
  /\ UNCHANGED <<tickHandlers, tickCalls, tickRegAt, objs, worldVars, pmCounter, spawnLog,
                 cbVars, watch>>

\* cb(): one callback is invoked and returns.
TickStep ==
  /\ ~TickIdle
  /\ tickRun.pc <= ForEachLength(tickHandlers, tickRun.len)
  /\ tickCalls' = [tickCalls EXCEPT ![tickRun.pc] = @ + 1]
  /\ last' = [last EXCEPT !.handled = Append(@, [slot |-> tickRun.pc,
                                                 cb |-> tickHandlers[tickRun.pc]])]
  /\ tickRun' = [tickRun EXCEPT !.pc = ForEachNext(@)]
  /\ UNCHANGED <<tickHandlers, tickRegAt, objs, worldVars, pmCounter, spawnLog, cbVars, watch>>

\* forEach is past the last index: runTickHandlers returns.
TickDone ==
  /\ ~TickIdle
  /\ tickRun.pc > ForEachLength(tickHandlers, tickRun.len)
  /\ tickRun' = [tickRun EXCEPT !.pc = 0]
  /\ last' = [last EXCEPT !.status = "returned"]
  /\ UNCHANGED <<tickHandlers, tickCalls, tickRegAt, objs, worldVars, pmCounter, spawnLog,
                 cbVars, watch>>

\* Tick callbacks: the player's code registers callbacks, also from inside a callback,
\* and the loop runs them.
NextTicks ==
  \/ \E cb \in Callbacks : OnTick(cb)
  \/ RunTickHandlers
  \/ TickStep
  \/ TickDone
  \/ Return

SpecTicks == Init /\ [][NextTicks]_vars

----------------------------------------------------------------------------
(* getRole, forEachCreep, runRole                                          *)

\* The host gives every creep of the player a memory object.
WrappedCreepKinds == {k \in CreepKinds : k.hasMemory}

\* this.creep.memory.role ?? null
getRole(c) == IF c.role = <<>> THEN "null" ELSE c.role

HasHandler_Any(handlers, role) == handlers # {}

\* handlers[role] is truthy; `handlers` is the set of roles that have a handler.
HasHandler(handlers, role) == role \in handlers

\* The callback runRole passes to forEachCreep: the handler calls it makes for creep i.
RoleCallback(i, handlers) ==
  IF getRole(creeps[i]) = "null" THEN <<>>
  ELSE IF HasHandler(handlers, getRole(creeps[i]))
       THEN <<[creep |-> i, handler |-> getRole(creeps[i])]>>
       ELSE <<>>

RECURSIVE RunRoleFrom(_, _)
RunRoleFrom(i, handlers) ==
  IF i > Len(creeps) THEN [visited |-> <<>>, calls |-> <<>>]
  ELSE LET rest == RunRoleFrom(i + 1, handlers)
       IN [visited |-> <<i>> \o rest.visited,
           calls |-> RoleCallback(i, handlers) \o rest.calls]

runRole(handlers) == RunRoleFrom(1, handlers)

RunRole(handlers) ==
  /\ Idle /\ TickIdle
  /\ \E r \in {runRole(handlers)} :
       last' = [NoOp EXCEPT !.op = "runRole", !.handlers = handlers,
                            !.handled = r.visited, !.calls = r.calls]
  /\ UNCHANGED <<worldVars, pmCounter, spawnLog, cbVars, wrapperVars>>

\* Role dispatch: creeps with any role, an unknown role or none come and go.
NextRoles ==
  \/ Return
  \/ \E handlers \in SUBSET Roles : RunRole(handlers)
  \/ \E kind \in WrappedCreepKinds : AddCreep(kind)
  \/ \E i \in 1..MaxCreeps : RemoveCreep(i)

SpecRoles == Init /\ [][NextRoles]_vars

----------------------------------------------------------------------------
(* The room as the wrapped creep sees it.                                  *)

\* The creep stands at one end of the line, so an object's position is its range.
CreepPos == 0
HitsMax == 100
EnergyUnit == 50

\* creep.store: what the creep carries and the room it has left.
CreepStores ==
  {[pos |-> CreepPos, used |-> u, free |-> f] : u \in {0, EnergyUnit}, f \in {0, EnergyUnit}}
    \ {[pos |-> CreepPos, used |-> 0, free |-> 0]}

\* The codes a host command answers with in the model; ERR_BUSY stands for every code
\* the wrapper has no label for.
HostResults == {OK, ERR_NO_PATH, ERR_TIRED, ERR_BUSY}

\* A room object: a structure, construction site, source, creep or dropped resource.
Obj(kind, pos, free, used, hits, level) ==
  [kind |-> kind, pos |-> pos, free |-> free, used |-> used, hits |-> hits, level |-> level]

StructureKinds == {"spawn", "extension", "tower", "container", "storage", "road", "controller"}

\* pos.getRangeTo, pos.inRangeTo
Range(a, b) == IF a >= b THEN a - b ELSE b - a
inRangeTo(a, b, range) == Range(a, b) <= range

\* room.find(...) with a filter, as the set of indexes into the room's objects;
\* 0 stands for null.
Indexes(kinds) == {i \in 1..Len(objs) : objs[i].kind \in kinds}
FirstOf(S) == IF S = {} THEN 0 ELSE CHOOSE i \in S : \A j \in S : i <= j
LastOf(S) == IF S = {} THEN 0 ELSE CHOOSE i \in S : \A j \in S : i >= j

\* pos.findClosestByRange(S): an object of S at the least range, null for no objects.
\* Which of several objects at the same range the host picks is its choice: `tie`.
Closest(pos, S, tie) ==
  LET nearest == {i \in S : \A j \in S : Range(pos, objs[i].pos) <= Range(pos, objs[j].pos)}
  IN IF tie = "first" THEN FirstOf(nearest) ELSE LastOf(nearest)

Ties == {"first", "last"}

\* What a wrapper method did: the label it returns and the host commands it issued.
Done(ret) == [ret |-> ret, cmds |-> <<>>]
Did(ret, cmd, target) == [ret |-> ret, cmds |-> <<[cmd |-> cmd, target |-> target]>>]

----------------------------------------------------------------------------
(* HarvestingMixin                                                         *)

full(self) == self.free = 0
empty(self) == self.used = 0
needsEnergy(self) == ~full(self)

isNear(self, pos, range) == inRangeTo(self.pos, pos, range)

MoveLabel_TiredIsError(res) ==
  IF res = ERR_NO_PATH THEN "NO_PATH" ELSE IF res # OK THEN "ERROR" ELSE "MOVING"

\* The mapping of creep.moveTo's result in moveTo.
MoveLabel(res) ==
  IF res = ERR_NO_PATH THEN "NO_PATH"
  ELSE IF res # OK /\ res # ERR_TIRED THEN "ERROR"
  ELSE "MOVING"

moveTo(self, pos, res) ==
  IF isNear(self, pos, 0) THEN Done("ALREADY_THERE")
  ELSE Did(MoveLabel(res), "moveTo", pos)

moveNear(self, pos, res) ==
  IF isNear(self, pos, 1) THEN Done("ALREADY_NEAR")
  ELSE LET result == moveTo(self, pos, res)
       IN [ret |-> IF result.ret = "NO_PATH" THEN "NO_PATH"
                   ELSE IF result.ret = "ERROR" THEN "ERROR"
                   ELSE "MOVING",
           cmds |-> result.cmds]

\* The spawns goHome chooses from: `home` is the object homeSpawnName names (0: not
\* set, or a name Game.spawns does not hold, or a spawn of another room).
HomeSpawns(home) ==
  IF home # 0 /\ home \in Indexes({"spawn"}) THEN {home} ELSE Indexes({"spawn"})

\* A variant that is content within range 2 of the spawn.
goHome_StopsShort(self, home, tie, res) ==
  IF HomeSpawns(home) = {} THEN Done("NO_TARGET")
  ELSE LET spawn == Closest(self.pos, HomeSpawns(home), tie)
       IN IF isNear(self, objs[spawn].pos, 2) THEN Done("ALREADY_THERE")
          ELSE Did("MOVING", "moveTo", objs[spawn].pos)

goHome(self, home, tie, res) ==
  IF HomeSpawns(home) = {} THEN Done("NO_TARGET")
  ELSE LET spawn == Closest(self.pos, HomeSpawns(home), tie)
       IN IF isNear(self, objs[spawn].pos, 1) THEN Done("ALREADY_THERE")
          ELSE Did("MOVING", "moveTo", objs[spawn].pos)

\* A variant that hands over whatever the spawn has room for.
storeEnergyToBase_Partial(self, tie, res) ==
  IF empty(self) THEN Done("EMPTY")
  ELSE IF Indexes({"spawn"}) = {} THEN Done("NO_TARGET")
  ELSE LET spawn == Closest(self.pos, Indexes({"spawn"}), tie)
       IN IF ~isNear(self, objs[spawn].pos, 1) THEN Done("NO_TARGET")
          ELSE IF objs[spawn].free <= 0 THEN Done("TARGET_FULL")
          ELSE Did(IF res = OK THEN "TRANSFERRING" ELSE "ERROR", "transfer", spawn)

storeEnergyToBase(self, tie, res) ==
  IF empty(self) THEN Done("EMPTY")
  ELSE IF Indexes({"spawn"}) = {} THEN Done("NO_TARGET")
  ELSE LET spawn == Closest(self.pos, Indexes({"spawn"}), tie)
       IN IF ~isNear(self, objs[spawn].pos, 1) THEN Done("NO_TARGET")
          ELSE IF objs[spawn].free < self.used THEN Done("TARGET_FULL")
          ELSE Did(IF res = OK THEN "TRANSFERRING" ELSE "ERROR", "transfer", spawn)

harvest(self, source, res) ==
  IF ~isNear(self, objs[source].pos, 1) THEN Done("NOT_IN_RANGE")
  ELSE Did(IF res = OK THEN "HARVESTING" ELSE "ERROR", "harvest", source)

\* The method as it was when actions still walked the creep into range.
transferEnergyTo_AutoMove(self, target, res) ==
  IF empty(self) THEN Done("EMPTY")
  ELSE IF ~isNear(self, objs[target].pos, 1) THEN Did("MOVING", "moveTo", objs[target].pos)
  ELSE Did(IF res = OK THEN "TRANSFERRING" ELSE "ERROR", "transfer", target)

transferEnergyTo(self, target, res) ==
  IF empty(self) THEN Done("EMPTY")
  ELSE IF ~isNear(self, objs[target].pos, 1) THEN Done("NOT_IN_RANGE")
  ELSE Did(IF res = OK THEN "TRANSFERRING" ELSE "ERROR", "transfer", target)

withdraw(self, target, res) ==
  IF ~isNear(self, objs[target].pos, 1) THEN Done("NOT_IN_RANGE")
  ELSE IF objs[target].used <= 0 THEN Done("ERROR")
  ELSE Did(IF res = OK THEN "WITHDRAWING" ELSE "ERROR", "withdraw", target)

----------------------------------------------------------------------------
(* The room's objects, and the wrapper's movement methods as actions.      *)

\* The range within which the wrapper acts on an object of a kind.
Reach(kind) == IF kind \in {"site", "road", "controller"} THEN 3 ELSE 1

\* Objects stand at the edge of the wrapper's reach or one step beyond it; creeps
\* stand anywhere but on the wrapped creep's tile.
KindPositions(kind) ==
  IF kind \in {"hostile", "mycreep"} THEN 1..MaxPos ELSE {Reach(kind), Reach(kind) + 1}

\* The objects of a kind: with and without room for energy, with and without energy,
\* intact, damaged and badly damaged, controller at and below the top level.
ObjectsOf(kind) ==
  CASE kind \in {"spawn", "extension", "tower"} ->
         {Obj(kind, p, f, 0, HitsMax, 0) : p \in KindPositions(kind), f \in {0, EnergyUnit}}
    [] kind \in {"container", "storage"} ->
         {Obj(kind, p, f, EnergyUnit - f, HitsMax, 0) :
            p \in KindPositions(kind), f \in {0, EnergyUnit}}
    [] kind = "road" ->
         {Obj(kind, p, 0, 0, h, 0) : p \in KindPositions(kind), h \in {40, 60, HitsMax}}
    [] kind = "mycreep" ->
         {Obj(kind, p, 0, 0, h, 0) : p \in {1, 2}, h \in {60, HitsMax}}
    [] kind = "controller" ->
         {Obj(kind, p, 0, 0, HitsMax, l) : p \in KindPositions(kind), l \in {7, 8}}
    [] OTHER ->
         {Obj(kind, p, 0, 0, HitsMax, 0) : p \in KindPositions(kind)}

\* Something appears in the room ...
AddObj(o) ==
  /\ Idle /\ TickIdle
  /\ Len(objs) < MaxObjs
  /\ o.kind = "controller" => Indexes({"controller"}) = {}
  /\ objs' = Append(objs, o)
  /\ UNCHANGED <<last, tickVars, worldVars, pmCounter, spawnLog, cbVars, watch>>

\* ... or disappears from it.
RemoveObj(i) ==
  /\ Idle /\ TickIdle
  /\ i \in 1..Len(objs)
  /\ objs' = [k \in 1..(Len(objs) - 1) |-> IF k < i THEN objs[k] ELSE objs[k + 1]]
  /\ UNCHANGED <<last, tickVars, worldVars, pmCounter, spawnLog, cbVars, watch>>

\* A method of the wrapper is called on a creep and returns.
Call(op, self, arg, tie, res, r) ==
  /\ Idle /\ TickIdle
  /\ last' = [NoOp EXCEPT !.op = op, !.self = self, !.arg = arg, !.tie = tie, !.res = res,
                          !.status = r.ret, !.cmds = r.cmds]
  /\ UNCHANGED <<worldVars, pmCounter, spawnLog, cbVars, wrapperVars>>

MoveTo(pos) ==
  \E self \in CreepStores, res \in HostResults :
    Call("moveTo", self, pos, "", res, moveTo(self, pos, res))

MoveNear(pos) ==
  \E self \in CreepStores, res \in HostResults :
    Call("moveNear", self, pos, "", res, moveNear(self, pos, res))

GoHome(home) ==
  \E self \in CreepStores, res \in HostResults, tie \in Ties :
    Call("goHome", self, home, tie, res, goHome(self, home, tie, res))

\* Movement: positions to go to, and spawns that come and go.
NextMove ==
  \/ Return
  \/ \E pos \in 0..MaxPos : MoveTo(pos)
  \/ \E pos \in 0..MaxPos : MoveNear(pos)
  \/ \E home \in 0..MaxObjs : GoHome(home)
  \/ \E o \in ObjectsOf("spawn") \cup ObjectsOf("extension") : AddObj(o)
  \/ \E i \in 1..MaxObjs : RemoveObj(i)

SpecMove == Init /\ [][NextMove]_vars

----------------------------------------------------------------------------
(* WorkMixin                                                               *)

\* room.controller, or null
Controller == FirstOf(Indexes({"controller"}))

\* The filter s => s.hits < s.hitsMax; a controller has no hits.
IsDamaged(o) == o.kind # "controller" /\ o.hits < HitsMax
Damaged == {i \in Indexes(StructureKinds) : IsDamaged(objs[i])}

\* The method as it was when actions still walked the creep into range.
upgradeController_AutoMove(self, res) ==
  IF empty(self) THEN Done("EMPTY")
  ELSE IF Controller = 0 THEN Done("NO_TARGET")
  ELSE IF ~isNear(self, objs[Controller].pos, 3) THEN moveTo(self, objs[Controller].pos, res)
  ELSE Did(IF res = OK THEN "UPGRADING" ELSE "ERROR", "upgradeController", Controller)

upgradeController(self, res) ==
  IF empty(self) THEN Done("EMPTY")
  ELSE IF Controller = 0 THEN Done("NO_TARGET")
  ELSE IF ~isNear(self, objs[Controller].pos, 3) THEN Done("NOT_IN_RANGE")
  ELSE Did(IF res = OK THEN "UPGRADING" ELSE "ERROR", "upgradeController", Controller)

findClosestConstructionSite(self, tie) == Closest(self.pos, Indexes({"site"}), tie)

buildSite(self, site, res) ==
  IF empty(self) THEN Done("EMPTY")
  ELSE IF site = 0 THEN Done("NO_TARGET")
  ELSE IF ~isNear(self, objs[site].pos, 3) THEN Done("NOT_IN_RANGE")
  ELSE Did(IF res = OK THEN "BUILDING" ELSE "ERROR", "build", site)

\* position.lookFor(LOOK_CONSTRUCTION_SITES)[0]
SiteAt(pos) == FirstOf({i \in Indexes({"site"}) : objs[i].pos = pos})

\* `position` is [pos, sameRoom]: a tile of the creep's room or of another one.
buildAt(self, position, res) ==
  IF empty(self) THEN Done("EMPTY")
  ELSE IF ~position.sameRoom THEN Done("NO_TARGET")
  ELSE IF SiteAt(position.pos) = 0 THEN Done("NO_SITE")
  ELSE IF ~isNear(self, objs[SiteAt(position.pos)].pos, 3) THEN Done("NOT_IN_RANGE")
  ELSE Did(IF res = OK THEN "BUILDING" ELSE "ERROR", "build", SiteAt(position.pos))

findClosestDamagedStructure(self, tie) == Closest(self.pos, Damaged, tie)

repair(self, target, res) ==
  IF empty(self) THEN Done("EMPTY")
  ELSE IF target = 0 THEN Done("NO_TARGET")
  ELSE IF ~isNear(self, objs[target].pos, 3) THEN Done("NOT_IN_RANGE")
  ELSE Did(IF res = OK THEN "REPAIRING" ELSE "ERROR", "repair", target)

hasWork ==
  \/ Indexes({"site"}) # {}
  \/ Damaged # {}
  \/ (Controller # 0 /\ objs[Controller].level < 8)

doWork_RepairFirst(self, tie, res) ==
  IF findClosestDamagedStructure(self, tie) # 0
  THEN repair(self, findClosestDamagedStructure(self, tie), res)
  ELSE IF findClosestConstructionSite(self, tie) # 0
  THEN buildSite(self, findClosestConstructionSite(self, tie), res)
  ELSE upgradeController(self, res)

doWork(self, tie, res) ==
  IF findClosestConstructionSite(self, tie) # 0
  THEN buildSite(self, findClosestConstructionSite(self, tie), res)
  ELSE IF findClosestDamagedStructure(self, tie) # 0
  THEN repair(self, findClosestDamagedStructure(self, tie), res)
  ELSE upgradeController(self, res)

----------------------------------------------------------------------------
(* CombatMixin                                                             *)

findClosestHostile(self, tie) == Closest(self.pos, Indexes({"hostile"}), tie)

attackHostile(self, target, res) ==
  IF target = 0 THEN Done("NO_TARGET")
  ELSE IF ~isNear(self, objs[target].pos, 1) THEN Done("NOT_IN_RANGE")
  ELSE Did(IF res = OK THEN "ATTACKING" ELSE "ERROR", "attack", target)

rangedAttackHostile(self, target, res) ==
  IF target = 0 THEN Done("NO_TARGET")
  ELSE IF Range(self.pos, objs[target].pos) > 3 THEN Done("NOT_IN_RANGE")
  ELSE Did(IF res = OK THEN "ATTACKING" ELSE "ERROR", "rangedAttack", target)

----------------------------------------------------------------------------
(* LogisticsMixin                                                          *)

HasEnergy(kinds) == {i \in Indexes(kinds) : objs[i].used > 0}
HasFree(kinds) == {i \in Indexes(kinds) : objs[i].free > 0}

\* Dropped energy is measured from the room's first spawn if there is one.
findEnergyDropOrContainer(self, tie) ==
  LET spawn == FirstOf(Indexes({"spawn"}))
      from == IF spawn # 0 THEN objs[spawn].pos ELSE self.pos
  IN IF Indexes({"drop"}) # {} THEN Closest(from, Indexes({"drop"}), tie)
     ELSE IF HasEnergy({"container"}) # {} THEN Closest(self.pos, HasEnergy({"container"}), tie)
     ELSE IF HasEnergy({"storage"}) # {} THEN Closest(self.pos, HasEnergy({"storage"}), tie)
     ELSE 0

pickupOrWithdrawEnergy(self, tie, res) ==
  IF full(self) THEN Done("FULL")
  ELSE LET target == findEnergyDropOrContainer(self, tie)
       IN IF target = 0 THEN Done("NO_TARGET")
          ELSE IF objs[target].kind = "drop"
          THEN IF ~isNear(self, objs[target].pos, 1) THEN Done("NOT_IN_RANGE")
               ELSE Did(IF res = OK THEN "PICKING_UP" ELSE "ERROR", "pickup", target)
          ELSE IF ~isNear(self, objs[target].pos, 1) THEN Done("NOT_IN_RANGE")
          ELSE withdraw(self, target, res)

fillExtensionsAndSpawn(self, tie, res) ==
  IF empty(self) THEN Done("EMPTY")
  ELSE IF HasFree({"spawn", "extension"}) = {} THEN Done("NO_TARGET")
  ELSE transferEnergyTo(self, Closest(self.pos, HasFree({"spawn", "extension"}), tie), res)

storeEnergyInContainers(self, tie, res) ==
  IF empty(self) THEN Done("EMPTY")
  ELSE IF HasFree({"container", "storage"}) = {} THEN Done("NO_TARGET")
  ELSE transferEnergyTo(self, Closest(self.pos, HasFree({"container", "storage"}), tie), res)

needsEnergyFill(s) == s.free > 0

deliverEnergyToBase(self, tie, res) ==
  LET spawn == FirstOf(Indexes({"spawn"}))
  IN IF empty(self) THEN Done("EMPTY")
     ELSE IF spawn # 0 /\ needsEnergyFill(objs[spawn]) THEN transferEnergyTo(self, spawn, res)
     ELSE IF HasFree({"extension"}) # {}
     THEN transferEnergyTo(self, Closest(self.pos, HasFree({"extension"}), tie), res)
     ELSE IF HasFree({"tower"}) # {}
     THEN transferEnergyTo(self, Closest(self.pos, HasFree({"tower"}), tie), res)
     ELSE IF HasFree({"container", "storage"}) # {}
     THEN transferEnergyTo(self, Closest(self.pos, HasFree({"container", "storage"}), tie), res)
     ELSE Done("NO_TARGET")

----------------------------------------------------------------------------
(* The wrapper's action methods as actions.                                *)

\* Arguments: an object of the room of the kinds the method is meant for, or null.
TargetsOf(kinds) == Indexes(kinds) \cup {0}
StoreKinds == {"spawn", "extension", "tower", "container", "storage"}
Positions == [pos : 0..MaxPos, sameRoom : BOOLEAN]

Harvest(source) ==
  /\ source \in Indexes({"source"})
  /\ \E self \in CreepStores, res \in HostResults :
       Call("harvest", self, source, "", res, harvest(self, source, res))

TransferEnergyTo(target) ==
  /\ target \in Indexes(StoreKinds)
  /\ \E self \in CreepStores, res \in HostResults :
       Call("transferEnergyTo", self, target, "", res, transferEnergyTo(self, target, res))

Withdraw(target) ==
  /\ target \in Indexes(StoreKinds)
  /\ \E self \in CreepStores, res \in HostResults :
       Call("withdraw", self, target, "", res, withdraw(self, target, res))

StoreEnergyToBase ==
  \E self \in CreepStores, res \in HostResults, tie \in Ties :
    Call("storeEnergyToBase", self, 0, tie, res, storeEnergyToBase(self, tie, res))

UpgradeController ==
  \E self \in CreepStores, res \in HostResults :
    Call("upgradeController", self, 0, "", res, upgradeController(self, res))

BuildSite(site) ==
  /\ site \in TargetsOf({"site"})
  /\ \E self \in CreepStores, res \in HostResults :
       Call("buildSite", self, site, "", res, buildSite(self, site, res))

BuildAt(position) ==
  \E self \in CreepStores, res \in HostResults :
    Call("buildAt", self, position, "", res, buildAt(self, position, res))

Repair(target) ==
  /\ target \in TargetsOf(StructureKinds \ {"controller"})
  /\ \E self \in CreepStores, res \in HostResults :
       Call("repair", self, target, "", res, repair(self, target, res))

DoWork ==
  \E self \in CreepStores, res \in HostResults, tie \in Ties :
    Call("doWork", self, 0, tie, res, doWork(self, tie, res))

AttackHostile(target) ==
  /\ target \in TargetsOf({"hostile"})
  /\ \E self \in CreepStores, res \in HostResults :
       Call("attackHostile", self, target, "", res, attackHostile(self, target, res))

RangedAttackHostile(target) ==
  /\ target \in TargetsOf({"hostile"})
  /\ \E self \in CreepStores, res \in HostResults :
       Call("rangedAttackHostile", self, target, "", res,
            rangedAttackHostile(self, target, res))

PickupOrWithdrawEnergy ==
  \E self \in CreepStores, res \in HostResults, tie \in Ties :
    Call("pickupOrWithdrawEnergy", self, 0, tie, res, pickupOrWithdrawEnergy(self, tie, res))

FillExtensionsAndSpawn ==
  \E self \in CreepStores, res \in HostResults, tie \in Ties :
    Call("fillExtensionsAndSpawn", self, 0, tie, res, fillExtensionsAndSpawn(self, tie, res))

StoreEnergyInContainers ==
  \E self \in CreepStores, res \in HostResults, tie \in Ties :
    Call("storeEnergyInContainers", self, 0, tie, res,
         storeEnergyInContainers(self, tie, res))

DeliverEnergyToBase ==
  \E self \in CreepStores, res \in HostResults, tie \in Ties :
    Call("deliverEnergyToBase", self, 0, tie, res, deliverEnergyToBase(self, tie, res))

\* Every kind of object the action methods deal with.
ActionKinds ==
  {"source", "spawn", "extension", "container", "storage", "drop", "site", "road",
   "controller", "hostile"}
ActionObjects == UNION {ObjectsOf(kind) : kind \in ActionKinds}

\* Actions: any action method on any creep in a room whose objects come and go.
NextActions ==
  \/ Return
  \/ \E target \in 1..MaxObjs : Harvest(target)
  \/ \E target \in 1..MaxObjs : TransferEnergyTo(target)
  \/ \E target \in 1..MaxObjs : Withdraw(target)
  \/ StoreEnergyToBase
  \/ UpgradeController
  \/ \E target \in 0..MaxObjs : BuildSite(target)
  \/ \E position \in Positions : BuildAt(position)
  \/ \E target \in 0..MaxObjs : Repair(target)
  \/ DoWork
  \/ \E target \in 0..MaxObjs : AttackHostile(target)
  \/ \E target \in 0..MaxObjs : RangedAttackHostile(target)
  \/ PickupOrWithdrawEnergy
  \/ FillExtensionsAndSpawn
  \/ StoreEnergyInContainers
  \/ DeliverEnergyToBase
  \/ \E o \in ActionObjects : AddObj(o)
  \/ \E i \in 1..MaxObjs : RemoveObj(i)

SpecActions == Init /\ [][NextActions]_vars


\* Delivery: a base whose spawns, extensions, towers, containers and storage fill up
\* and empty.
NextDeliver ==
  \/ Return
  \/ DeliverEnergyToBase
  \/ \E o \in UNION {ObjectsOf(kind) : kind \in StoreKinds} : AddObj(o)
  \/ \E i \in 1..MaxObjs : RemoveObj(i)

SpecDeliver == Init /\ [][NextDeliver]_vars

----------------------------------------------------------------------------
(* towerDefendBase                                                         *)

\* The tower stands where the model's creep stands; it holds energy or none.
Towers == {[pos |-> CreepPos, used |-> u, free |-> EnergyUnit - u] : u \in {0, EnergyUnit}}

IsCritical_AnyDamage(o) == IsDamaged(o)

\* The filter s => s.hits < s.hitsMax * 0.5
IsCritical(o) == o.kind # "controller" /\ 2 * o.hits < HitsMax

Hostiles == Indexes({"hostile"})
Critical == {i \in Indexes(StructureKinds) : IsCritical(objs[i])}
Injured == {i \in Indexes({"mycreep"}) : objs[i].hits < HitsMax}

towerDefendBase(tower, tie, res) ==
  IF tower.used <= 0 THEN Done("EMPTY")
  ELSE IF Hostiles # {}
  THEN Did(IF res = OK THEN "ATTACK" ELSE "ERROR", "attack", Closest(tower.pos, Hostiles, tie))
  ELSE IF Critical # {}
  THEN Did(IF res = OK THEN "REPAIR" ELSE "ERROR", "repair", Closest(tower.pos, Critical, tie))
  ELSE IF Injured # {}
  THEN Did(IF res = OK THEN "HEAL" ELSE "ERROR", "heal", Closest(tower.pos, Injured, tie))
  ELSE Done("IDLE")

TowerDefendBase ==
  \E tower \in Towers, res \in HostResults, tie \in Ties :
    Call("towerDefendBase", tower, 0, tie, res, towerDefendBase(tower, tie, res))

\* Defence: hostiles, structures in any state of repair and friendly creeps come and go.
NextTower ==
  \/ Return
  \/ TowerDefendBase
  \/ \E o \in UNION {ObjectsOf(kind) : kind \in {"hostile", "road", "mycreep"}} : AddObj(o)
  \/ \E i \in 1..MaxObjs : RemoveObj(i)

SpecTower == Init /\ [][NextTower]_vars

----------------------------------------------------------------------------
(* Work: what doWork chooses in a room of sites, structures and a controller *)

HasWork ==
  \E self \in CreepStores :
    Call("hasWork", self, 0, "", OK, Done(IF hasWork THEN "true" ELSE "false"))

NextWork ==
  \/ Return
  \/ DoWork
  \/ HasWork
  \/ \E o \in UNION {ObjectsOf(kind) : kind \in {"site", "road", "controller"}} : AddObj(o)
  \/ \E i \in 1..MaxObjs : RemoveObj(i)

SpecWork == Init /\ [][NextWork]_vars

----------------------------------------------------------------------------
(* Keeping away: stayAwayFrom, kiteHostile, fleeToBase                     *)

\* fleeSearch.path as PathFinder.search may return it: no step, one step or more,
\* each a tile named by its range from the creep.
FleePaths == {<<>>, <<1>>, <<1, 2>>}

\* The distances a caller may ask for.
Distances == 0..MaxPos

stayAwayFrom_Strict(self, pos, distance, path, res) ==
  IF Range(self.pos, pos) > distance THEN Done("SAFE")
  ELSE IF path = <<>> THEN Done("NO_PATH")
  ELSE Did(IF res # OK /\ res # ERR_TIRED THEN "ERROR" ELSE "RETREATING", "move", path[1])

stayAwayFrom(self, pos, distance, path, res) ==
  IF Range(self.pos, pos) >= distance THEN Done("SAFE")
  ELSE IF path = <<>> THEN Done("NO_PATH")
  ELSE Did(IF res # OK /\ res # ERR_TIRED THEN "ERROR" ELSE "RETREATING", "move", path[1])

StayAwayFrom(pos, distance) ==
  /\ Idle /\ TickIdle
  /\ \E self \in CreepStores, path \in FleePaths, res \in HostResults :
       Call("stayAwayFrom", self, [pos |-> pos, distance |-> distance, path |-> path], "", res,
            stayAwayFrom(self, pos, distance, path, res))


\* The method as it was when it still chased a hostile out of range.
kiteHostile_Chase(self, tie, path, res) ==
  LET target == findClosestHostile(self, tie)
  IN IF target = 0 THEN Done("NO_TARGET")
     ELSE IF Range(self.pos, objs[target].pos) < 3
     THEN stayAwayFrom(self, objs[target].pos, 3, path, res)
     ELSE IF Range(self.pos, objs[target].pos) <= 3
     THEN rangedAttackHostile(self, target, res)
     ELSE moveTo(self, objs[target].pos, res)

kiteHostile(self, tie, path, res) ==
  LET target == findClosestHostile(self, tie)
  IN IF target = 0 THEN Done("NO_TARGET")
     ELSE IF Range(self.pos, objs[target].pos) < 3
     THEN stayAwayFrom(self, objs[target].pos, 3, path, res)
     ELSE IF Range(self.pos, objs[target].pos) <= 3
     THEN rangedAttackHostile(self, target, res)
     ELSE Done("NOT_IN_RANGE")

\* creep.hits of the wrapped creep
CreepHits == {60, HitsMax}

\* The target of creep.heal(this.creep): the creep itself, no object of the room.
healSelfIfNeeded(self, hits, res) ==
  IF hits >= HitsMax THEN Done("HEALTHY")
  ELSE Did(IF res = OK THEN "HEALING" ELSE "ERROR", "heal", 0)

hasHostilesInRoom == Indexes({"hostile"}) # {}

\* Game.flags[flagName]: no such flag, or a flag on a tile of this room or another.
Flags ==
  {[exists |-> FALSE, pos |-> 0, sameRoom |-> FALSE]}
    \cup [exists : {TRUE}, pos : 0..MaxPos, sameRoom : BOOLEAN]

moveToFlag(self, flag, res) ==
  IF ~flag.exists THEN Done("NO_TARGET")
  ELSE IF ~flag.sameRoom THEN Done("NO_TARGET")
  ELSE moveTo(self, flag.pos, res)

\* A variant that sets off home after stepping away, whether or not the step worked.
fleeToBase_AlwaysHome(self, home, tie, path, res, tie2, res2) ==
  LET target == Closest(self.pos, Indexes({"hostile"}), tie)
      tooClose == target # 0 /\ Range(self.pos, objs[target].pos) < 4
      fleeStatus == stayAwayFrom(self, objs[target].pos, 4, path, res)
      home2 == goHome(self, home, tie2, res2)
  IN IF tooClose THEN [ret |-> home2.ret, cmds |-> fleeStatus.cmds \o home2.cmds]
     ELSE home2

\* `tie` and `res` are the host's answers while keeping away from the hostile, `tie2`
\* and `res2` its answers on the way home.
fleeToBase(self, home, tie, path, res, tie2, res2) ==
  LET target == Closest(self.pos, Indexes({"hostile"}), tie)
      tooClose == target # 0 /\ Range(self.pos, objs[target].pos) < 4
      fleeStatus == stayAwayFrom(self, objs[target].pos, 4, path, res)
      home2 == goHome(self, home, tie2, res2)
  IN IF tooClose /\ fleeStatus.ret # "NO_PATH" /\ fleeStatus.ret # "ERROR" THEN fleeStatus
     ELSE IF tooClose THEN [ret |-> home2.ret, cmds |-> fleeStatus.cmds \o home2.cmds]
     ELSE home2

KiteHostile ==
  /\ Idle /\ TickIdle
  /\ \E self \in CreepStores, tie \in Ties, path \in FleePaths, res \in HostResults :
       Call("kiteHostile", self, [path |-> path], tie, res, kiteHostile(self, tie, path, res))

HealSelfIfNeeded ==
  /\ Idle /\ TickIdle
  /\ \E self \in CreepStores, hits \in CreepHits, res \in HostResults :
       Call("healSelfIfNeeded", self, hits, "", res, healSelfIfNeeded(self, hits, res))

MoveToFlag(flag) ==
  /\ Idle /\ TickIdle
  /\ \E self \in CreepStores, res \in HostResults :
       Call("moveToFlag", self, flag, "", res, moveToFlag(self, flag, res))

FleeToBase(home) ==
  /\ Idle /\ TickIdle
  /\ \E self \in CreepStores, tie \in Ties, path \in FleePaths, res \in HostResults,
        tie2 \in Ties, res2 \in HostResults :
       Call("fleeToBase", self, home, tie, res, fleeToBase(self, home, tie, path, res, tie2, res2))

\* Combat at a distance: hostiles come and go, the creep keeps away and kites.
NextFlee ==
  \/ Return
  \/ \E pos \in 0..MaxPos, distance \in Distances : StayAwayFrom(pos, distance)
  \/ KiteHostile
  \/ \E o \in ObjectsOf("hostile") : AddObj(o)
  \/ \E i \in 1..MaxObjs : RemoveObj(i)

SpecFlee == Init /\ [][NextFlee]_vars

----------------------------------------------------------------------------
(* Storing at the spawn: spawns with room for none, part or all of the load *)

\* Spawns next to the creep or a step further, with free capacity for nothing, for half
\* of what a creep carries, for exactly that and for twice that.
FillingSpawns ==
  {Obj("spawn", p, f, 0, HitsMax, 0) :
     p \in KindPositions("spawn"), f \in {0, EnergyUnit \div 2, EnergyUnit, 2 * EnergyUnit}}

NextStore ==
  \/ Return
  \/ StoreEnergyToBase
  \/ \E o \in FillingSpawns : AddObj(o)
  \/ \E i \in 1..MaxObjs : RemoveObj(i)

SpecStore == Init /\ [][NextStore]_vars

----------------------------------------------------------------------------
(* Every action and movement method of the wrapper                         *)

\* Objects a method has something to do with: those with room for energy or energy to
\* give, damaged structures, a controller below the top level.
Actionable(o) ==
  CASE o.kind \in {"extension", "tower"} -> o.free > 0
    [] o.kind = "road" -> IsCritical(o)
    [] o.kind = "controller" -> o.level < 8
    [] OTHER -> TRUE

\* Such objects within the reach of the method that deals with them; spawns and
\* hostiles of every sort, also out of reach.
MethodObjects ==
  {o \in ActionObjects \cup ObjectsOf("tower") :
     o.kind \in {"spawn", "hostile"} \/ (o.pos = Reach(o.kind) /\ Actionable(o))}

NextMethods ==
  \/ Return
  \/ \E pos \in 0..MaxPos : MoveTo(pos)
  \/ \E pos \in 0..MaxPos : MoveNear(pos)
  \/ \E pos \in 0..MaxPos, distance \in Distances : StayAwayFrom(pos, distance)
  \/ \E flag \in Flags : MoveToFlag(flag)
  \/ \E home \in 0..MaxObjs : GoHome(home)
  \/ StoreEnergyToBase
  \/ \E target \in 1..MaxObjs : Harvest(target)
  \/ \E target \in 1..MaxObjs : TransferEnergyTo(target)
  \/ \E target \in 1..MaxObjs : Withdraw(target)
  \/ UpgradeController
  \/ \E target \in 0..MaxObjs : BuildSite(target)
  \/ \E position \in Positions : BuildAt(position)
  \/ \E target \in 0..MaxObjs : Repair(target)
  \/ DoWork
  \/ PickupOrWithdrawEnergy
  \/ FillExtensionsAndSpawn
  \/ StoreEnergyInContainers
  \/ DeliverEnergyToBase
  \/ \E target \in 0..MaxObjs : AttackHostile(target)
  \/ \E target \in 0..MaxObjs : RangedAttackHostile(target)
  \/ KiteHostile
  \/ HealSelfIfNeeded
  \/ \E home \in 0..MaxObjs : FleeToBase(home)
  \/ \E o \in MethodObjects : AddObj(o)
  \/ \E i \in 1..MaxObjs : RemoveObj(i)

SpecMethods == Init /\ [][NextMethods]_vars

----------------------------------------------------------------------------
(* The harvester pattern: goHome, then storeEnergyToBase once at home      *)

\* const goHomeStatus = c.goHome();
\* if (goHomeStatus === ActionStatus.ALREADY_THERE) c.storeEnergyToBase();
\* `stored` is what storeEnergyToBase returned, "" if it was not called.
goHomeThenStore(self, home, tie, res, tie2, res2) ==
  LET goHomeStatus == goHome(self, home, tie, res)
      stored == storeEnergyToBase(self, tie2, res2)
  IN IF goHomeStatus.ret = "ALREADY_THERE"
     THEN [ret |-> goHomeStatus.ret, cmds |-> goHomeStatus.cmds \o stored.cmds, stored |-> stored.ret]
     ELSE [ret |-> goHomeStatus.ret, cmds |-> goHomeStatus.cmds, stored |-> ""]

GoHomeThenStore(home) ==
  /\ Idle /\ TickIdle
  /\ \E self \in CreepStores, tie \in Ties, res \in HostResults, tie2 \in Ties,
        res2 \in HostResults :
       \E r \in {goHomeThenStore(self, home, tie, res, tie2, res2)} :
         /\ last' = [NoOp EXCEPT !.op = "goHomeThenStore", !.self = self,
                                 !.arg = [home |-> home, stored |-> r.stored],
                                 !.tie = tie, !.res = res2, !.status = r.ret, !.cmds = r.cmds]
         /\ UNCHANGED <<worldVars, pmCounter, spawnLog, cbVars, wrapperVars>>

\* Coming home: spawns come and go, homeSpawnName names one of them or none.
NextHome ==
  \/ Return
  \/ \E home \in 0..MaxObjs : GoHomeThenStore(home)
  \/ \E o \in ObjectsOf("spawn") : AddObj(o)
  \/ \E i \in 1..MaxObjs : RemoveObj(i)

SpecHome == Init /\ [][NextHome]_vars

----------------------------------------------------------------------------
(* build/watch.js: fs.watch, the debounce timer, runFlatten                *)

\* `changes` counts the file-change events delivered with a file name, `built` is its
\* value when the latest flatten.js was started, `procs` the flatten.js processes
\* alive.  `debounce` is null, a pending timer, or a timer that has fired.

\* function runFlatten()
runFlatten(w) ==
  IF w.running THEN w
  ELSE [w EXCEPT !.running = TRUE, !.procs = @ + 1, !.built = w.changes]

\* The fs.watch callback for an event with a file name:
\* if (debounce) clearTimeout(debounce); debounce = setTimeout(runFlatten, 150)
WatchEvent ==
  /\ watch.changes < MaxChanges
  /\ watch' = [watch EXCEPT !.changes = @ + 1, !.debounce = "armed"]
  /\ UNCHANGED <<last, objs, tickVars, worldVars, pmCounter, spawnLog, cbVars>>

\* The fs.watch callback for an event without one: if (!filename) return
WatchEventUnnamed ==
  /\ watch.ignored < MaxIgnored
  /\ watch' = [watch EXCEPT !.ignored = @ + 1]
  /\ UNCHANGED <<last, objs, tickVars, worldVars, pmCounter, spawnLog, cbVars>>

\* 150 ms have passed since the last event: the timer calls runFlatten.
DebounceFires ==
  /\ watch.debounce = "armed"
  /\ watch' = [runFlatten(watch) EXCEPT !.debounce = "fired"]
  /\ UNCHANGED <<last, objs, tickVars, worldVars, pmCounter, spawnLog, cbVars>>

\* p.on('exit', () => { running = false; })
FlattenExits ==
  /\ watch.procs > 0
  /\ watch' = [watch EXCEPT !.procs = @ - 1, !.running = FALSE]
  /\ UNCHANGED <<last, objs, tickVars, worldVars, pmCounter, spawnLog, cbVars>>

NextWatch == WatchEvent \/ WatchEventUnnamed \/ DebounceFires \/ FlattenExits

\* A pending timer fires and a flatten run terminates; file changes owe nothing.
SpecWatch ==
  Init /\ [][NextWatch]_vars /\ WF_vars(DebounceFires) /\ WF_vars(FlattenExits)

----------------------------------------------------------------------------
(* Properties.                                                             *)

\* The sum of BODYPART_COST over a body, part kind by part kind.
TotalCost(body) ==
  100 * Cardinality({i \in 1..Len(body) : body[i] = WORK})
    + 50 * Cardinality({i \in 1..Len(body) : body[i] = CARRY})
    + 50 * Cardinality({i \in 1..Len(body) : body[i] = MOVE})
    + 80 * Cardinality({i \in 1..Len(body) : body[i] = ATTACK})
    + 10 * Cardinality({i \in 1..Len(body) : body[i] = TOUGH})

\* WORK+CARRY+MOVE for Harvester and Worker, TOUGH+ATTACK+MOVE for Soldier.
MinimalCost(role) == IF role = Soldier THEN 10 + 80 + 50 ELSE 100 + 50 + 50

\* The creeps whose memory.role equals role.
CreepsOfRole(role) == {i \in 1..Len(creeps) : creeps[i].hasMemory /\ creeps[i].role = role}

SpawningSpawns == {i \in 1..Len(spawns) : spawns[i].spawning # <<>>}

\* C1: across any sequence of buildCreep calls Memory.__pmCounter never decreases,
\* and no two spawnCreep calls are passed the same creep name, also not two calls
\* in the same tick for the same role.
C1_CounterGrowsNamesDistinct ==
  /\ [](\A i, j \in 1..Len(spawnLog) : i < j => spawnLog[i].name # spawnLog[j].name)
  /\ [][CounterValue(pmCounter') >= CounterValue(pmCounter)]_vars

\* C1 witness: two spawnCreep calls for the same role in the same tick.
C1_Witness ==
  /\ Len(spawnLog) = 2
  /\ spawnLog[1] = [name |-> CreepName(Harvester, 1, 0), role |-> Harvester]
  /\ spawnLog[2] = [name |-> CreepName(Harvester, 2, 0), role |-> Harvester]
  /\ time = 0

\* C2: for every role and energy the body chooseBody picks costs at most
\* room.energyAvailable, and that is the body buildCreep hands to spawnCreep; when
\* the role's base body costs more than the energy, the body is empty and
\* spawnCreep is not called.
C2_BodyWithinEnergy ==
  last.op = "buildCreep" =>
    /\ \A k \in 1..Len(last.calls) :
         /\ last.calls[k].body = chooseBody(last.role, Available)
         /\ TotalCost(last.calls[k].body) <= Available
    /\ MinimalCost(last.role) > Available =>
         /\ chooseBody(last.role, Available) = <<>>
         /\ last.calls = <<>>

\* C2 witness: buildCreep handed spawnCreep a body grown to the ceiling of 50 parts.
C2_Witness ==
  /\ last.op = "buildCreep"
  /\ Len(last.calls) = 1
  /\ Len(last.calls[1].body) = 50
  /\ TotalCost(last.calls[1].body) <= Available

\* C3: for every role and energy the body chooseBody builds never has more than 50
\* parts, the body it returns is the one the loops built, and the loops terminate.
C3_BodyBoundedTerminates ==
  /\ [](Len(cbBody) <= 50)
  /\ [](cbPc = "done" => cbBody = chooseBody(cbRole, cbEnergy))
  /\ <>(cbPc = "done")

\* C3 witness: the loops stopped at the 50-part ceiling with energy to spare for
\* another unit.
C3_Witness ==
  /\ cbPc = "done"
  /\ Len(cbBody) = 50
  /\ TotalCost(cbBody) + 150 <= cbEnergy

\* C4: canBuildCreep(role) is true exactly when a primary spawn (the first key of
\* Game.spawns) exists, is not spawning, has a room, and the room's energy covers
\* the role's minimal body; it changes nothing in Memory and calls no spawnCreep.
C4_CanBuildExactly ==
  /\ [](last.op = "canBuildCreep" =>
          (last.result <=>
             /\ Len(spawns) >= 1
             /\ spawns[1].spawning = <<>>
             /\ spawns[1].hasRoom
             /\ Available >= MinimalCost(last.role)))
  /\ [][last'.op = "canBuildCreep" =>
          /\ pmCounter' = pmCounter
          /\ memEntries' = memEntries
          /\ spawnLog' = spawnLog]_vars

\* C4 witness: canBuildCreep answered true while the second spawn was busy.
C4_Witness ==
  /\ last.op = "canBuildCreep"
  /\ last.result
  /\ Len(spawns) = 2
  /\ spawns[2].spawning # <<>>

\* C5 as stated: no primary spawn or no room gives ERROR, a spawning spawn gives
\* SPAWN_BUSY, an empty body gives NOT_ENOUGH_ENERGY, otherwise the label follows
\* the spawnCreep result.
C5_AsStated ==
  last.op = "buildCreep" =>
    /\ IF Len(spawns) = 0 \/ ~spawns[1].hasRoom THEN last.status = "ERROR"
       ELSE IF spawns[1].spawning # <<>> THEN last.status = "SPAWN_BUSY"
       ELSE IF chooseBody(last.role, Available) = <<>> THEN last.status = "NOT_ENOUGH_ENERGY"
       ELSE /\ Len(last.calls) = 1
            /\ last.calls[1].res = OK => last.status = "SPAWNING"
            /\ last.calls[1].res = ERR_NOT_ENOUGH_ENERGY => last.status = "NOT_ENOUGH_ENERGY"
            /\ last.calls[1].res \in {ERR_BUSY, ERR_NAME_EXISTS} => last.status = "SPAWN_BUSY"
            /\ last.calls[1].res \notin {OK, ERR_NOT_ENOUGH_ENERGY, ERR_BUSY, ERR_NAME_EXISTS}
                 => last.status = "ERROR"
    /\ last.status = "SPAWNING" =>
         /\ Len(last.calls) = 1
         /\ last.calls[1].memRole = last.role
         /\ last.calls[1].res = OK

\* C5 (amended): buildCreep(role) gives ERROR without a primary spawn, SPAWN_BUSY
\* when the primary spawn is spawning (with or without a room), ERROR when an idle
\* primary spawn has no room, NOT_ENOUGH_ENERGY when the chosen body is empty, and
\* otherwise calls spawnCreep once and maps OK to SPAWNING, ERR_NOT_ENOUGH_ENERGY
\* to NOT_ENOUGH_ENERGY, ERR_BUSY and ERR_NAME_EXISTS to SPAWN_BUSY and any other
\* code to ERROR; SPAWNING is returned only after a spawnCreep call with
\* memory.role = role that returned OK.
C5_BuildCreepLabels ==
  last.op = "buildCreep" =>
    /\ IF Len(spawns) = 0 THEN last.status = "ERROR" /\ last.calls = <<>>
       ELSE IF spawns[1].spawning # <<>> THEN last.status = "SPAWN_BUSY" /\ last.calls = <<>>
       ELSE IF ~spawns[1].hasRoom THEN last.status = "ERROR" /\ last.calls = <<>>
       ELSE IF chooseBody(last.role, Available) = <<>>
       THEN last.status = "NOT_ENOUGH_ENERGY" /\ last.calls = <<>>
       ELSE /\ Len(last.calls) = 1
            /\ last.calls[1].res = OK => last.status = "SPAWNING"
            /\ last.calls[1].res = ERR_NOT_ENOUGH_ENERGY => last.status = "NOT_ENOUGH_ENERGY"
            /\ last.calls[1].res \in {ERR_BUSY, ERR_NAME_EXISTS} => last.status = "SPAWN_BUSY"
            /\ last.calls[1].res \notin {OK, ERR_NOT_ENOUGH_ENERGY, ERR_BUSY, ERR_NAME_EXISTS}
                 => last.status = "ERROR"
    /\ last.status = "SPAWNING" =>
         /\ Len(last.calls) = 1
         /\ last.calls[1].memRole = last.role
         /\ last.calls[1].res = OK

\* C5 witness: a spawning primary spawn without a room got SPAWN_BUSY.
C5_Witness ==
  /\ last.op = "buildCreep"
  /\ HasPrimarySpawn
  /\ spawns[1].spawning # <<>>
  /\ ~spawns[1].hasRoom
  /\ last.status = "SPAWN_BUSY"

\* C6: maintainCreepsAtRole(role, targetCount) returns CAPPED exactly when
\* getCreepCount(role) >= targetCount, and then it calls no spawnCreep and leaves
\* Memory.__pmCounter as it was.
C6_CappedExactly ==
  last.op = "maintainCreepsAtRole" =>
    /\ last.status = "CAPPED" <=> Cardinality(CreepsOfRole(last.role)) >= last.target
    /\ last.status = "CAPPED" =>
         /\ last.calls = <<>>
         /\ pmCounter = last.counterBefore

\* C6 witness: a target of 0 was CAPPED although a creep could have been built.
C6_Witness ==
  /\ last.op = "maintainCreepsAtRole"
  /\ last.target = 0
  /\ last.status = "CAPPED"
  /\ canBuildCreep(last.role)

\* C7 as stated: below the target, maintainCreepsAtRole returns SPAWNING exactly
\* when spawnCreep was called and returned OK, and BLOCKED in every other case.
C7_AsStated ==
  (last.op = "maintainCreepsAtRole" /\ Cardinality(CreepsOfRole(last.role)) < last.target) =>
    LET started == Len(last.calls) = 1 /\ last.calls[1].res = OK
    IN /\ last.status = "SPAWNING" <=> started
       /\ ~started => last.status = "BLOCKED"

\* The keys of a targets object whose value is a number, by position.
NumericKeys(targets) == {i \in 1..Len(targets) : targets[i].value # <<>>}

\* The position in targets of the k-th key whose value is a number.
NthNumeric(targets, k) ==
  CHOOSE i \in NumericKeys(targets) :
    Cardinality({j \in NumericKeys(targets) : j <= i}) = k

\* C8: maintainPopulation(targets) returns a map whose keys are exactly the keys of
\* targets that hold a number, and whose value for a role is what
\* maintainCreepsAtRole(role, target) returns when the roles are processed one after
\* another in key order, each against the state the previous one left.
C8_SummaryPerRoleInOrder ==
  last.op = "maintainPopulation" =>
    LET targets == last.targets
        steps == last.steps
    IN /\ DOMAIN last.summary = {targets[i].key : i \in NumericKeys(targets)}
       /\ Len(steps) = Cardinality(NumericKeys(targets))
       /\ \A k \in 1..Len(steps) :
            LET entry == targets[NthNumeric(targets, k)]
                before == IF k = 1 THEN last.counterBefore
                          ELSE maintainCreepsAtRole(steps[k - 1].key, steps[k - 1].target,
                                                    steps[k - 1].counterBefore,
                                                    steps[k - 1].res).counter
                alone == maintainCreepsAtRole(entry.key, entry.value[1], before, steps[k].res)
            IN /\ steps[k].key = entry.key
               /\ steps[k].counterBefore = before
               /\ last.summary[entry.key] = alone.ret
       /\ pmCounter = IF steps = <<>> THEN last.counterBefore
                      ELSE LET z == steps[Len(steps)]
                           IN maintainCreepsAtRole(z.key, z.target, z.counterBefore, z.res).counter

\* C8 witness: one pass skipped a key that holds no number and started a creep for
\* the key after it.
C8_Witness ==
  /\ last.op = "maintainPopulation"
  /\ Len(last.targets) = 2
  /\ last.targets[1].value = <<>>
  /\ DOMAIN last.summary = {last.targets[2].key}
  /\ last.summary[last.targets[2].key] = "SPAWNING"

\* C9: getCreepCount(role) is the number of creeps whose memory.role equals role;
\* forEachCreepOfRole(role, handler) calls the handler once for each of them and for
\* no other creep, so the calls number getCreepCount(role); the counts of the three
\* roles sum to at most the number of creeps.
C9_CountAndVisitByRole ==
  /\ last.op = "getCreepCount" => last.count = Cardinality(CreepsOfRole(last.role))
  /\ last.op = "forEachCreepOfRole" =>
       /\ \A i, j \in 1..Len(last.handled) : i # j => last.handled[i] # last.handled[j]
       /\ {last.handled[i] : i \in 1..Len(last.handled)} = CreepsOfRole(last.role)
       /\ Len(last.handled) = getCreepCount(last.role)
  /\ getCreepCount(Harvester) + getCreepCount(Worker) + getCreepCount(Soldier) <= Len(creeps)

\* C9 witness: the handler ran for the second creep only, the first having another role.
C9_Witness ==
  /\ last.op = "forEachCreepOfRole"
  /\ Len(creeps) = 2
  /\ creeps[1].role \in Roles
  /\ last.handled = <<2>>

\* C10: getQueuedSpawns reports one job per spawning spawn and none for an idle one;
\* for a spawn spawning a creep named by buildCreep(role), with no Memory entry under
\* that name, the job's role is the role buildCreep was given.
C10_QueueRoundTrip ==
  last.op = "getQueuedSpawns" =>
    /\ Len(last.jobs) = Cardinality(SpawningSpawns)
    /\ \A i \in 1..Len(spawns) :
         LET mine == {k \in 1..Len(last.jobs) : last.jobs[k].spawnName = spawns[i].name}
         IN IF i \in SpawningSpawns
            THEN /\ Cardinality(mine) = 1
                 /\ \A k \in mine :
                      /\ last.jobs[k].name = spawns[i].spawning[1]
                      /\ \A e \in 1..Len(spawnLog) :
                           (spawnLog[e].name = spawns[i].spawning[1]
                              /\ spawns[i].spawning[1] \notin DOMAIN memEntries)
                             => last.jobs[k].role = spawnLog[e].role
            ELSE mine = {}

\* C10 witness: the queue was read while one spawn was spawning a creep that
\* buildCreep had named, another was idle, and Memory held no entry for the name.
C10_Witness ==
  /\ last.op = "getQueuedSpawns"
  /\ Len(spawns) = 2
  /\ spawns[1].spawning = <<>>
  /\ spawns[2].spawning # <<>>
  /\ spawns[2].spawning[1] \in LoggedNames
  /\ memEntries = <<>>
  /\ Len(last.jobs) = 1


\* The registrations made before the run in progress (or just finished) began.
SlotsBeforeRun == 1..last.count

\* C11: each call of runTickHandlers invokes every callback registered before the call
\* exactly once, in registration order (a callback registered twice is invoked twice);
\* between runs, every registration has been invoked once per run started after it was
\* made.
C11_TickHandlersOncePerRun ==
  /\ (last.op = "runTickHandlers" /\ last.status = "returned") =>
       /\ Len(last.handled) = last.count
       /\ \A k \in 1..Len(last.handled) :
            /\ last.handled[k].slot = k
            /\ last.handled[k].cb = tickHandlers[k]
       /\ \A cb \in Callbacks :
            Cardinality({k \in 1..Len(last.handled) : last.handled[k].cb = cb})
              = Cardinality({i \in SlotsBeforeRun : tickHandlers[i] = cb})
  /\ TickIdle =>
       \A i \in 1..Len(tickHandlers) : tickCalls[i] = tickRun.started - tickRegAt[i]

\* C11 witness: the second run has returned; it invoked a callback that is registered
\* twice two times, and not the registration a callback made during the run.
C11_Witness ==
  /\ last.op = "runTickHandlers" /\ last.status = "returned"
  /\ tickRun.started = 2
  /\ Len(last.handled) = 2
  /\ last.handled[1].cb = last.handled[2].cb
  /\ Len(tickHandlers) = 3
  /\ tickRegAt[3] = 2
  /\ tickCalls = <<2, 1, 0>>


\* The handler calls runRole made for creep i.
CallsFor(i) == {k \in 1..Len(last.calls) : last.calls[k].creep = i}

\* C12: runRole(handlers) visits every creep of Game.creeps once; for a creep whose
\* stored role has a handler in the map it calls that handler, for that creep, exactly
\* once; for a creep with no role, or with a role that has no handler, it calls no
\* handler; it never calls the handler of another role for a creep.
C12_RunRoleDispatch ==
  last.op = "runRole" =>
    /\ last.handled = [i \in 1..Len(creeps) |-> i]
    /\ \A k \in 1..Len(last.calls) :
         /\ last.calls[k].creep \in 1..Len(creeps)
         /\ last.calls[k].handler = creeps[last.calls[k].creep].role
         /\ last.calls[k].handler \in last.handlers
    /\ \A i \in 1..Len(creeps) :
         Cardinality(CallsFor(i)) = (IF creeps[i].role \in last.handlers THEN 1 ELSE 0)

\* C12 witness: of two creeps the first has no role and the second is a worker; with
\* handlers for harvesters and workers only the worker's handler ran, once.
C12_Witness ==
  /\ last.op = "runRole"
  /\ Len(creeps) = 2
  /\ creeps[1].role = <<>>
  /\ creeps[2].role = Worker
  /\ last.handlers = {Harvester, Worker}
  /\ last.calls = <<[creep |-> 2, handler |-> Worker]>>


\* The host commands of the call in progress.
HostCalls == Len(last.cmds)

\* C15: moveTo(target) returns ALREADY_THERE exactly when the creep is at range 0 of
\* the target, and then makes no host call; otherwise it makes exactly one host moveTo
\* call and maps its result: ERR_NO_PATH to NO_PATH, OK or ERR_TIRED to MOVING, any other
\* code to ERROR.  moveNear(target) returns ALREADY_NEAR without a host call exactly
\* when the creep is within range 1, and otherwise makes moveTo's call and returns
\* MOVING, NO_PATH or ERROR as moveTo would, never ALREADY_THERE.
C15_MoveToMoveNearLabels ==
  /\ last.op = "moveTo" =>
       /\ last.status = "ALREADY_THERE" <=> Range(last.self.pos, last.arg) = 0
       /\ last.status = "ALREADY_THERE" => HostCalls = 0
       /\ last.status # "ALREADY_THERE" =>
            /\ last.cmds = <<[cmd |-> "moveTo", target |-> last.arg]>>
            /\ last.res = ERR_NO_PATH => last.status = "NO_PATH"
            /\ last.res \in {OK, ERR_TIRED} => last.status = "MOVING"
            /\ last.res \notin {OK, ERR_TIRED, ERR_NO_PATH} => last.status = "ERROR"
  /\ last.op = "moveNear" =>
       /\ last.status = "ALREADY_NEAR" <=> Range(last.self.pos, last.arg) <= 1
       /\ last.status = "ALREADY_NEAR" => HostCalls = 0
       /\ last.status # "ALREADY_NEAR" =>
            /\ last.cmds = <<[cmd |-> "moveTo", target |-> last.arg]>>
            /\ last.status \in {"MOVING", "NO_PATH", "ERROR"}
            /\ last.status = moveTo(last.self, last.arg, last.res).ret

\* C15 witness: moveNear toward a tile two steps away, the host answering ERR_TIRED.
C15_Witness ==
  /\ last.op = "moveNear"
  /\ last.arg = 2
  /\ last.res = ERR_TIRED
  /\ last.status = "MOVING"
  /\ HostCalls = 1

\* C16 as stated: when the creep is not within range 1 of the chosen spawn, goHome
\* calls creep.moveTo once and returns that call's result as moveTo would label it.
C16_AsStated ==
  (last.op = "goHome" /\ HostCalls > 0) =>
    /\ HostCalls = 1
    /\ last.cmds[1].cmd = "moveTo"
    /\ last.status = MoveLabel(last.res)


\* The action methods of the wrapper, and the host commands that move a creep.
ActionMethods ==
  {"harvest", "transferEnergyTo", "withdraw", "storeEnergyToBase", "upgradeController",
   "buildSite", "buildAt", "repair", "doWork", "attackHostile", "rangedAttackHostile",
   "pickupOrWithdrawEnergy", "fillExtensionsAndSpawn", "storeEnergyInContainers",
   "deliverEnergyToBase"}
MovingCommands == {"moveTo", "move"}

\* The object the call in progress is about: the one it was given, or the one the
\* method found for itself; 0 if there is none.
ActedOn ==
  CASE last.op \in {"harvest", "transferEnergyTo", "withdraw", "buildSite", "repair",
                    "attackHostile", "rangedAttackHostile"} -> last.arg
    [] last.op = "storeEnergyToBase" -> Closest(last.self.pos, Indexes({"spawn"}), last.tie)
    [] last.op = "upgradeController" -> Controller
    [] last.op = "buildAt" -> IF last.arg.sameRoom THEN SiteAt(last.arg.pos) ELSE 0
    [] last.op = "doWork" ->
         IF Indexes({"site"}) # {} THEN findClosestConstructionSite(last.self, last.tie)
         ELSE IF Damaged # {} THEN findClosestDamagedStructure(last.self, last.tie)
         ELSE Controller
    [] last.op = "pickupOrWithdrawEnergy" -> findEnergyDropOrContainer(last.self, last.tie)
    [] last.op = "fillExtensionsAndSpawn" ->
         Closest(last.self.pos, HasFree({"spawn", "extension"}), last.tie)
    [] last.op = "storeEnergyInContainers" ->
         Closest(last.self.pos, HasFree({"container", "storage"}), last.tie)
    [] last.op = "deliverEnergyToBase" ->
         IF FirstOf(Indexes({"spawn"})) # 0 /\ objs[FirstOf(Indexes({"spawn"}))].free > 0
         THEN FirstOf(Indexes({"spawn"}))
         ELSE IF HasFree({"extension"}) # {}
         THEN Closest(last.self.pos, HasFree({"extension"}), last.tie)
         ELSE IF HasFree({"tower"}) # {}
         THEN Closest(last.self.pos, HasFree({"tower"}), last.tie)
         ELSE Closest(last.self.pos, HasFree({"container", "storage"}), last.tie)
    [] OTHER -> 0

\* The range the method needs to its object.
NeededRange ==
  IF last.op \in {"upgradeController", "buildSite", "buildAt", "repair", "doWork",
                  "rangedAttackHostile"}
  THEN 3 ELSE 1

OutOfRange ==
  /\ ActedOn # 0
  /\ Range(last.self.pos, objs[ActedOn].pos) > NeededRange

\* The precondition on the creep's store that the method checks before the range,
\* and the label it returns when the precondition fails.
StoreLabel ==
  IF last.op \in {"harvest", "withdraw", "attackHostile", "rangedAttackHostile"} THEN "none"
  ELSE IF last.op = "pickupOrWithdrawEnergy"
  THEN (IF last.self.free = 0 THEN "FULL" ELSE "none")
  ELSE (IF last.self.used = 0 THEN "EMPTY" ELSE "none")

NoMovingCommand == \A k \in 1..Len(last.cmds) : last.cmds[k].cmd \notin MovingCommands

DeliveryOrder == <<{"spawn"}, {"extension"}, {"tower"}, {"container", "storage"}>>

\* The priorities at which some structure has free energy capacity.
Needy == {k \in 1..Len(DeliveryOrder) : HasFree(DeliveryOrder[k]) # {}}

\* C17 as stated: deliverEnergyToBase() on a creep with no energy returns EMPTY and
\* makes no host call; on a creep carrying energy it returns NO_TARGET only when no
\* spawn, extension, tower, container or storage has free capacity, and a transfer
\* it makes goes to a structure with free capacity of the first kind, in the order
\* spawn, extensions, towers, containers/storage, that has such a structure.
C17_AsStated ==
  last.op = "deliverEnergyToBase" =>
    /\ last.self.used = 0 => (last.status = "EMPTY" /\ HostCalls = 0)
    /\ last.self.used > 0 =>
         /\ last.status = "NO_TARGET" => Needy = {}
         /\ \A k \in 1..Len(last.cmds) :
              /\ last.cmds[k].cmd = "transfer"
              /\ last.cmds[k].target \in HasFree(DeliveryOrder[FirstOf(Needy)])


\* The call in progress issued exactly the command cmd, on an object of S that no
\* other object of S is closer than.
OneCommandOnClosest(cmd, S) ==
  /\ HostCalls = 1
  /\ last.cmds[1].cmd = cmd
  /\ last.cmds[1].target \in S
  /\ \A j \in S : Range(last.self.pos, objs[last.cmds[1].target].pos)
                    <= Range(last.self.pos, objs[j].pos)

\* C18: towerDefendBase(tower) with tower energy > 0 issues at most one tower
\* command, chosen by strict priority: attack the closest hostile if there is a
\* hostile (ATTACK); else repair the closest structure with hits below half of
\* hitsMax if there is one (REPAIR); else heal the closest injured friendly creep if
\* there is one (HEAL); else IDLE with no command.  If the command fails the result is
\* ERROR and no command of a lower priority is issued.
C18_TowerPriority ==
  (last.op = "towerDefendBase" /\ last.self.used > 0) =>
    /\ HostCalls <= 1
    /\ IF Hostiles # {}
       THEN /\ OneCommandOnClosest("attack", Hostiles)
            /\ last.status = (IF last.res = OK THEN "ATTACK" ELSE "ERROR")
       ELSE IF \E i \in Indexes(StructureKinds) : 2 * objs[i].hits < HitsMax
       THEN /\ OneCommandOnClosest("repair",
                                   {i \in Indexes(StructureKinds) : 2 * objs[i].hits < HitsMax})
            /\ last.status = (IF last.res = OK THEN "REPAIR" ELSE "ERROR")
       ELSE IF Injured # {}
       THEN /\ OneCommandOnClosest("heal", Injured)
            /\ last.status = (IF last.res = OK THEN "HEAL" ELSE "ERROR")
       ELSE /\ HostCalls = 0
            /\ last.status = "IDLE"

\* C18 witness: no hostile, a badly damaged structure and an injured creep; the repair
\* fails, the tower reports ERROR and does not go on to heal.
C18_Witness ==
  /\ last.op = "towerDefendBase"
  /\ Hostiles = {}
  /\ Critical # {}
  /\ Injured # {}
  /\ last.res # OK
  /\ last.status = "ERROR"
  /\ last.cmds = <<[cmd |-> "repair", target |-> FirstOf(Critical)]>>


\* The objects of S that no other object of S is closer to the creep than.
Nearest(S) ==
  {i \in S : \A j \in S : Range(last.self.pos, objs[i].pos) <= Range(last.self.pos, objs[j].pos)}

\* What the call in progress returned and commanded.
Outcome == [ret |-> last.status, cmds |-> last.cmds]

Sites == Indexes({"site"})
DamagedStructures == {i \in Indexes(StructureKinds \ {"controller"}) : objs[i].hits < HitsMax}

\* C19: doWork() chooses one action by fixed priority: build the closest construction
\* site if there is a site; else repair the closest damaged structure if there is one;
\* else upgradeController.  Its result is the result of the chosen action, and no
\* action of a lower priority is attempted, whatever the chosen one returns.
C19_DoWorkPriority ==
  last.op = "doWork" =>
    IF Sites # {}
    THEN \E t \in Nearest(Sites) : Outcome = buildSite(last.self, t, last.res)
    ELSE IF DamagedStructures # {}
    THEN \E t \in Nearest(DamagedStructures) : Outcome = repair(last.self, t, last.res)
    ELSE Outcome = upgradeController(last.self, last.res)

\* C19 witness: a site out of reach and a damaged structure within reach; doWork
\* answers NOT_IN_RANGE for the site and leaves the structure alone.
C19_Witness ==
  /\ last.op = "doWork"
  /\ \E s \in Sites : ~inRangeTo(last.self.pos, objs[s].pos, 3)
  /\ \E d \in DamagedStructures : inRangeTo(last.self.pos, objs[d].pos, 3)
  /\ ~empty(last.self)
  /\ last.status = "NOT_IN_RANGE"
  /\ last.cmds = <<>>

\* C20, as stated: whenever hasWork() is false, doWork() returns NO_TARGET and issues
\* no host command; and hasWork() is true whenever the room has a construction site, a
\* damaged structure or a controller below level 8.
C20_AsStated ==
  /\ (last.op = "doWork" /\ ~hasWork) => (last.status = "NO_TARGET" /\ HostCalls = 0)
  /\ (last.op = "hasWork"
        /\ (\/ Sites # {}
            \/ DamagedStructures # {}
            \/ \E c \in Indexes({"controller"}) : objs[c].level < 8))
       => last.status = "true"

\* The second half of C20 alone: what hasWork answers.
C20_HasWorkOnly ==
  last.op = "hasWork" =>
    (last.status = "true" <=>
       (\/ Sites # {}
        \/ DamagedStructures # {}
        \/ \E c \in Indexes({"controller"}) : objs[c].level < 8))


\* C21: stayAwayFrom(target, distance) returns SAFE, with no host command, exactly
\* when the range to the target is at least distance.  Closer than that, an empty flee
\* path gives NO_PATH and no command; otherwise exactly one creep.move is issued,
\* towards the first step of the path, and the result is RETREATING when the move
\* answers OK or ERR_TIRED and ERROR otherwise.
C21_StayAwayFrom ==
  last.op = "stayAwayFrom" =>
    LET range == Range(last.self.pos, last.arg.pos)
    IN /\ last.status = "SAFE" <=> range >= last.arg.distance
       /\ range >= last.arg.distance => HostCalls = 0
       /\ range < last.arg.distance =>
            IF last.arg.path = <<>>
            THEN last.status = "NO_PATH" /\ HostCalls = 0
            ELSE /\ last.cmds = <<[cmd |-> "move", target |-> last.arg.path[1]]>>
                 /\ last.status = (IF last.res \in {OK, ERR_TIRED} THEN "RETREATING" ELSE "ERROR")

\* C21 witness: the target stands exactly at the asked distance, and the creep is SAFE.
C21_Witness ==
  /\ last.op = "stayAwayFrom"
  /\ last.arg.distance > 0
  /\ Range(last.self.pos, last.arg.pos) = last.arg.distance
  /\ last.status = "SAFE"
  /\ last.cmds = <<>>


\* C22: kiteHostile() returns NO_TARGET when the room has no hostile.  Otherwise, for
\* a closest hostile: at range <= 2 it does what stayAwayFrom(target, 3) does; at range
\* exactly 3 it issues one rangedAttack on it; beyond range 3 it returns NOT_IN_RANGE
\* and neither moves nor attacks.  rangedAttack is issued at range 3 only, a call never
\* both attacks and retreats, and SAFE is never returned.
C22_KiteHostile ==
  last.op = "kiteHostile" =>
    /\ last.status # "SAFE"
    /\ ~({"move", "rangedAttack"} \subseteq {last.cmds[k].cmd : k \in 1..HostCalls})
    /\ IF Hostiles = {}
       THEN last.status = "NO_TARGET" /\ HostCalls = 0
       ELSE \E t \in Nearest(Hostiles) :
              LET range == Range(last.self.pos, objs[t].pos)
              IN /\ range <= 2 =>
                      Outcome = stayAwayFrom(last.self, objs[t].pos, 3, last.arg.path, last.res)
                 /\ range = 3 =>
                      /\ last.cmds = <<[cmd |-> "rangedAttack", target |-> t]>>
                      /\ last.status = (IF last.res = OK THEN "ATTACKING" ELSE "ERROR")
                 /\ range > 3 => (last.status = "NOT_IN_RANGE" /\ HostCalls = 0)
                 /\ (\E k \in 1..HostCalls : last.cmds[k].cmd = "rangedAttack") => range = 3

\* C22 witness: the closest hostile is beyond range 3 and the creep stays put.
C22_Witness ==
  /\ last.op = "kiteHostile"
  /\ Hostiles # {}
  /\ \A h \in Hostiles : Range(last.self.pos, objs[h].pos) > 3
  /\ last.status = "NOT_IN_RANGE"
  /\ last.cmds = <<>>


Spawns == Indexes({"spawn"})

\* C23: storeEnergyToBase() is all-or-nothing.  An empty creep gets EMPTY; a creep
\* with no spawn within range 1 gets NO_TARGET; neither issues a host command.  A creep
\* carrying energy within range 1 of the closest spawn gets TARGET_FULL, without a
\* transfer, if the spawn's free capacity is below what the creep carries; transfer is
\* called only on a spawn that can take all of it.
C23_StoreAllOrNothing ==
  last.op = "storeEnergyToBase" =>
    /\ IF last.self.used = 0
       THEN last.status = "EMPTY" /\ HostCalls = 0
       ELSE IF ~\E s \in Spawns : inRangeTo(last.self.pos, objs[s].pos, 1)
       THEN last.status = "NO_TARGET" /\ HostCalls = 0
       ELSE \E t \in Nearest(Spawns) :
              IF objs[t].free < last.self.used
              THEN last.status = "TARGET_FULL" /\ HostCalls = 0
              ELSE /\ last.cmds = <<[cmd |-> "transfer", target |-> t]>>
                   /\ last.status = (IF last.res = OK THEN "TRANSFERRING" ELSE "ERROR")
    /\ \A k \in 1..HostCalls :
         /\ last.cmds[k].cmd = "transfer"
         /\ objs[last.cmds[k].target].free >= last.self.used

\* C23 witness: the adjacent spawn has room for part of the load only; nothing is
\* transferred.
C23_Witness ==
  /\ last.op = "storeEnergyToBase"
  /\ last.self.used > 0
  /\ \E t \in Nearest(Spawns) :
       /\ inRangeTo(last.self.pos, objs[t].pos, 1)
       /\ objs[t].free > 0
       /\ objs[t].free < last.self.used
  /\ \A t \in Nearest(Spawns) : objs[t].free < last.self.used
  /\ last.status = "TARGET_FULL"
  /\ last.cmds = <<>>


\* The host commands that change state.
StateChanging ==
  {"move", "moveTo", "harvest", "transfer", "withdraw", "pickup", "build", "repair",
   "upgradeController", "attack", "rangedAttack", "heal"}

\* C24, as stated: one invocation of any action or movement method, fleeToBase,
\* kiteHostile, goHome and deliverEnergyToBase included, issues at most one
\* state-changing host command, and none after a command that returned an error.
C24_AsStated ==
  last.op # "none" =>
    /\ \A k \in 1..HostCalls : last.cmds[k].cmd \in StateChanging
    /\ HostCalls <= 1

\* C24, amended: every method but fleeToBase issues at most one state-changing host
\* command.  fleeToBase issues at most two, and two only as a creep.move away from
\* the hostile that returned an error (a code other than OK and ERR_TIRED) followed by
\* one creep.moveTo towards the spawn.
C24_OneCommandButFlee ==
  last.op # "none" =>
    /\ \A k \in 1..HostCalls : last.cmds[k].cmd \in StateChanging
    /\ last.op # "fleeToBase" => HostCalls <= 1
    /\ HostCalls <= 2
    /\ HostCalls = 2 =>
         /\ last.cmds[1].cmd = "move"
         /\ last.cmds[2].cmd = "moveTo"
         /\ last.res \notin {OK, ERR_TIRED}
         /\ \E h \in Hostiles : Range(last.self.pos, objs[h].pos) < 4

\* C24 witness: fleeToBase tried to step away, the step failed, and it set off home.
C24_Witness ==
  /\ last.op = "fleeToBase"
  /\ HostCalls = 2
  /\ last.status = "MOVING"


\* C25: Memory.__pmCounter goes up by exactly one in every buildCreep call that
\* reaches spawn.spawnCreep, whatever spawnCreep answers, and is left as it was by
\* every buildCreep call that returns earlier (no spawn, spawn busy, no room, empty
\* body) and by canBuildCreep, getCreepCount, getQueuedSpawns and forEachCreepOfRole.
C25_CounterFrame ==
  /\ last.op = "buildCreep" =>
       IF last.calls # <<>>
       THEN /\ Len(last.calls) = 1
            /\ pmCounter # <<>>
            /\ pmCounter[1] = CounterValue(last.counterBefore) + 1
       ELSE pmCounter = last.counterBefore
  /\ last.op \in {"canBuildCreep", "getCreepCount", "getQueuedSpawns", "forEachCreepOfRole"} =>
       pmCounter = last.counterBefore

\* C25 witness: spawnCreep refused the creep for lack of energy and the counter has
\* moved on all the same.
C25_Witness ==
  /\ last.op = "buildCreep"
  /\ Len(last.calls) = 1
  /\ last.calls[1].res = ERR_NOT_ENOUGH_ENERGY
  /\ last.counterBefore # <<>>
  /\ pmCounter = <<last.counterBefore[1] + 1>>


\* C26: whatever sequence of buildCreep, maintainCreepsAtRole and maintainPopulation
\* calls is made, spawn.spawnCreep is invoked only on the primary spawn (the first key
\* of Game.spawns), only while that spawn's `spawning` field is unset, and only with a
\* body of at least three parts that starts with the base body of the requested role.
C26_SpawnCreepGuarded ==
  last.op \in {"buildCreep", "maintainCreepsAtRole", "maintainPopulation"} =>
    \A k \in 1..Len(last.calls) :
      LET call == last.calls[k]
      IN /\ call.spawn = 1
         /\ Len(spawns) >= 1
         /\ spawns[1].spawning = <<>>
         /\ Len(call.body) >= 3
         /\ SubSeq(call.body, 1, 3) =
              (IF call.memRole = Soldier THEN <<TOUGH, ATTACK, MOVE>> ELSE <<WORK, CARRY, MOVE>>)

\* C26 witness: one pass of maintainPopulation calls spawnCreep twice, both times on
\* the idle primary spawn, while a second spawn is busy.
C26_Witness ==
  /\ last.op = "maintainPopulation"
  /\ Len(last.calls) = 2
  /\ Len(spawns) = 2
  /\ spawns[1].spawning = <<>>
  /\ spawns[2].spawning # <<>>
  /\ \E k \in 1..2 : Len(last.calls[k].body) > 3


\* C27: in the loop that calls maintainCreepsAtRole(role, n) once per tick, where a
\* spawnCreep that returned OK adds one creep of the role before the next tick and
\* creeps are otherwise only removed: the number of creeps of the role, once at most
\* n, never exceeds n; and in every tick in which it is below n while the primary spawn
\* is idle and the room has energy for the minimal body, spawnCreep is called.
C27_PopulationBound ==
  /\ [][getCreepCount(LoopRole) <= LoopTarget => getCreepCount(LoopRole)' <= LoopTarget]_vars
  /\ [](last.op = "maintainCreepsAtRole" =>
          /\ getCreepCount(LoopRole) >= LoopTarget => last.calls = <<>>
          /\ (/\ getCreepCount(LoopRole) < LoopTarget
              /\ spawns # <<>>
              /\ spawns[1].spawning = <<>>
              /\ Available >= 200) => Len(last.calls) = 1)

\* C27 witness: the loop has spawned a creep, the role is at its target, and this
\* tick's call is CAPPED.
C27_Witness ==
  /\ last.op = "maintainCreepsAtRole"
  /\ spawnLog # <<>>
  /\ getCreepCount(LoopRole) = LoopTarget
  /\ spawns # <<>>
  /\ spawns[1].spawning = <<>>
  /\ Available >= 200
  /\ last.status = "CAPPED"


\* The registrations made while the run in progress was executing.
SlotsDuringRun == {i \in 1..Len(tickHandlers) : i > tickRun.len}

\* C28: the registry of tick handlers only grows: no step removes or moves a
\* registration, so a run of runTickHandlers invokes at least as many callbacks as the
\* run before it.  A callback registered from inside a handler while runTickHandlers is
\* executing is not invoked during that run, and is invoked in every later run.
C28_RegistryOnlyGrows ==
  /\ [][/\ Len(tickHandlers') >= Len(tickHandlers)
        /\ SubSeq(tickHandlers', 1, Len(tickHandlers)) = tickHandlers
        /\ tickRun'.started # tickRun.started => tickRun'.len >= tickRun.len]_vars
  /\ [](~TickIdle =>
          /\ Len(last.handled) <= tickRun.len
          /\ \A k \in 1..Len(last.handled) : last.handled[k].slot <= tickRun.len
          /\ \A i \in SlotsDuringRun : tickCalls[i] = 0 /\ tickRegAt[i] = tickRun.started)
  /\ []((last.op = "runTickHandlers" /\ last.status = "returned") =>
          /\ Len(last.handled) = tickRun.len
          /\ \A i \in 1..Len(tickHandlers) :
               tickCalls[i] = Cardinality({r \in 1..tickRun.started : r > tickRegAt[i]}))

\* C28 witness: the second run is past its last callback; it has invoked the callback
\* a handler registered during the first run, and not the one registered during this
\* run.
C28_Witness ==
  /\ ~TickIdle
  /\ tickRun.started = 2
  /\ tickRun.len = 2
  /\ tickRun.pc > tickRun.len
  /\ Len(tickHandlers) = 3
  /\ tickRegAt = <<0, 1, 2>>
  /\ tickCalls = <<2, 1, 0>>


\* The spawns goHome may have selected: the one homeSpawnName names if it is a spawn
\* of the creep's room, else the closest spawns of the room.
SelectedSpawns ==
  IF last.arg.home \in Spawns THEN {last.arg.home} ELSE Nearest(Spawns)

\* C29: for a creep carrying energy, when goHome() returns ALREADY_THERE a
\* storeEnergyToBase() that follows at once, in the same state, does not return
\* NO_TARGET, whether homeSpawnName is set or not; and goHome() returns ALREADY_THERE
\* exactly when the creep is within range 1 of the spawn it selected.
C29_HomeThenStore ==
  last.op = "goHomeThenStore" =>
    /\ (last.self.used > 0 /\ last.status = "ALREADY_THERE") =>
         last.arg.stored \in {"TRANSFERRING", "TARGET_FULL", "ERROR"}
    /\ last.status = "ALREADY_THERE" <=>
         \E s \in SelectedSpawns : inRangeTo(last.self.pos, objs[s].pos, 1)

\* C29 witness: homeSpawnName names a spawn next to the creep while another spawn of
\* the room is just as close; goHome is ALREADY_THERE and the energy is handed over.
C29_Witness ==
  /\ last.op = "goHomeThenStore"
  /\ last.self.used > 0
  /\ last.arg.home \in Spawns
  /\ Cardinality(Nearest(Spawns)) = 2
  /\ last.status = "ALREADY_THERE"
  /\ last.arg.stored = "TRANSFERRING"


\* C30, as stated: in build/watch.js, for any interleaving of file-change events, the
\* debounce timer and flatten exits, with every flatten run terminating: at most one
\* flatten.js process runs at a time, and every file-change event is eventually
\* followed by a flatten run that starts after it.
C30_AsStated ==
  /\ [](watch.procs <= 1)
  /\ \A c \in 1..MaxChanges : (watch.changes >= c) ~> (watch.built >= c)

\* The first half of C30 alone: at most one flatten.js process at a time, and
\* `running` says whether there is one.
C30_OneFlattenAtATime ==
  /\ watch.procs <= 1
  /\ watch.running <=> watch.procs = 1

====
